---- MODULE Spec2Model ----
(***************************************************************************)
(* git-crypt-rs: the AES-256-GCM blob codec (src/crypto.rs), the key store *)
(* (src/key.rs), the git filters (src/git.rs) and the commands             *)
(* (src/commands/*.rs).                                                    *)
(*                                                                         *)
(* Bytes are integers 0..255 and byte strings are sequences of them.       *)
(* The aes_gcm crate is an external library: it is modelled by a small     *)
(* counter-mode cipher with a 16-byte checksum tag over key, nonce and     *)
(* ciphertext (AeadEncrypt / AeadDecrypt).  Within the bounds below the    *)
(* tag has no collisions, which is the standard AEAD assumption.           *)
(***************************************************************************)
EXTENDS Integers, Sequences, FiniteSets, TLC

(***************************************************************************)
(* Program constants                                                       *)
(***************************************************************************)
KEY_SIZE ==
  32

NONCE_SIZE ==
  12

TAG_SIZE ==
  16

\* b"GITCRYPT"
MAGIC_HEADER ==
  <<71, 73, 84, 67, 82, 89, 80, 84>>

\* 0o600
MODE_OWNER_RW ==
  6 * 64

\* 0o644: mode of a file created by File::create under the usual umask 022
MODE_CREATED ==
  6 * 64 + 4 * 8 + 4

(***************************************************************************)
(* Bounds of the model                                                     *)
(***************************************************************************)
\* longest alias and longest key comment drawn
MaxLabel ==
  2

\* longest plaintext / filter payload drawn
MaxCalls ==
  3

MaxLen ==
  2

\* byte values the drawn plaintexts are made of
ByteSample ==
  {0, 255}

\* amounts (mod 256) by which a tampered byte is changed
Deltas ==
  {1, 128}

(***************************************************************************)
(* Byte-string helpers                                                     *)
(***************************************************************************)
Take(s, n) ==
  SubSeq(s, 1, IF n < Len(s) THEN n ELSE Len(s))

Drop(s, n) ==
  SubSeq(s, n + 1, Len(s))

Bit(a, i) ==
  (a \div (2 ^ i)) % 2

\* bitwise exclusive or of two bytes
Xor(a, b) ==
  LET x(i) == ((Bit(a, i) + Bit(b, i)) % 2) * (2 ^ i)
  IN  x(0) + x(1) + x(2) + x(3) + x(4) + x(5) + x(6) + x(7)

\* all byte strings of length 0..n over ByteSample
SeqsUpTo(n) ==
  UNION {[1..k -> ByteSample] : k \in 0..n}

Plaintexts ==
  SeqsUpTo(MaxLen)

\* raw contents given to a filter or to decrypt: plain bytes, bytes that
\* begin with the magic header, and a proper prefix of the header
Inputs ==
  Plaintexts \cup {MAGIC_HEADER \o p : p \in Plaintexts}
    \cup {Take(MAGIC_HEADER, Len(MAGIC_HEADER) - 1)}

(***************************************************************************)
(* Result<T>: Ok(val) or Err(GitCryptError)                                *)
(***************************************************************************)
Ok(v) ==
  [ok |-> TRUE, err |-> "", msg |-> "", val |-> v]

Err(e, m) ==
  [ok |-> FALSE, err |-> e, msg |-> m, val |-> <<>>]

(***************************************************************************)
(* Keys and nonces drawn from the OS random number generator               *)
(***************************************************************************)
K1 ==
  [i \in 1..KEY_SIZE |-> i]

K2 ==
  [i \in 1..KEY_SIZE |-> (3 * i + 7) % 256]

\* values CryptoKey::generate may return
KeySet ==
  {K1, K2}

N1 ==
  [i \in 1..NONCE_SIZE |-> (11 * i) % 256]

N2 ==
  [i \in 1..NONCE_SIZE |-> (200 + i) % 256]

\* values OsRng.fill_bytes may put in nonce_bytes
NonceSet ==
  {N1, N2}

(***************************************************************************)
(* aes_gcm::Aes256Gcm (external crate)                                     *)
(***************************************************************************)
\* counter-mode key stream byte i
KeyStream(key, nonce, i) ==
  (key[((i - 1) % KEY_SIZE) + 1] + nonce[((i - 1) % NONCE_SIZE) + 1] + i) % 256

Crypt(key, nonce, data) ==
  [i \in 1..Len(data) |-> Xor(data[i], KeyStream(key, nonce, i))]

\* sum of the bytes of s at positions j, j + 16, j + 32, ...
StripeSum(s, j) ==
  LET n == IF Len(s) < j THEN 0 ELSE ((Len(s) - j) \div TAG_SIZE) + 1
      f[k \in 0..n] == IF k = 0 THEN 0 ELSE f[k - 1] + s[j + TAG_SIZE * (k - 1)]
  IN  f[n]

\* the 16-byte authentication tag over key, nonce and ciphertext
Tag(key, nonce, ct) ==
  [j \in 1..TAG_SIZE |->
     (j + Len(ct) + StripeSum(key, j) + nonce[((j - 1) % NONCE_SIZE) + 1]
        + StripeSum(ct, j)) % 256]

\* Aead::encrypt: ciphertext with the tag appended
AeadEncrypt(key, nonce, pt) ==
  LET ct == Crypt(key, nonce, pt)
  IN  ct \o Tag(key, nonce, ct)

\* Aead::decrypt: the plaintext, or aead::Error when the tag does not verify
AeadDecrypt(key, nonce, data) ==
  IF Len(data) < TAG_SIZE
  THEN Err("Crypto", "aead::Error")
  ELSE LET ct == Take(data, Len(data) - TAG_SIZE)
           tg == Drop(data, Len(data) - TAG_SIZE)
       IN  IF Tag(key, nonce, ct) = tg
           THEN Ok(Crypt(key, nonce, ct))
           ELSE Err("Crypto", "aead::Error")

(***************************************************************************)
(* CryptoKey (src/crypto.rs)                                               *)
(***************************************************************************)
from_bytes(bytes) ==
  IF Len(bytes) # KEY_SIZE
  THEN Err("InvalidKeyFormat", "")
  ELSE Ok(bytes)

\* encrypt with a nonce that is the same at every call
encrypt_fixed_nonce(key, plaintext, nonce_bytes) ==
  IF Len(key) # KEY_SIZE
  THEN Err("Crypto", "InvalidLength")
  ELSE Ok(MAGIC_HEADER \o N1 \o AeadEncrypt(key, N1, plaintext))

\* nonce_bytes is the value drawn from OsRng
encrypt(key, plaintext, nonce_bytes) ==
  IF Len(key) # KEY_SIZE
  THEN Err("Crypto", "InvalidLength")
  ELSE Ok(MAGIC_HEADER \o nonce_bytes \o AeadEncrypt(key, nonce_bytes, plaintext))

\* decrypt taking the nonce from the start of the input, as for a blob
\* without the magic header
decrypt_nonce_first(key, ciphertext) ==
  IF Len(ciphertext) < Len(MAGIC_HEADER) + NONCE_SIZE
  THEN Err("Crypto", "Ciphertext too short")
  ELSE IF Take(ciphertext, Len(MAGIC_HEADER)) # MAGIC_HEADER
  THEN Err("Crypto", "Invalid encrypted data format")
  ELSE AeadDecrypt(key, Take(ciphertext, NONCE_SIZE), Drop(ciphertext, NONCE_SIZE))

\* what decrypt returns once the AEAD's outcome is in hand, with a failed
\* outcome replaced by an empty plaintext (unwrap_or_default for ?)
swallow(r) ==
  IF r.ok THEN r ELSE Ok(<<>>)

decrypt_swallow(key, ciphertext) ==
  IF Len(ciphertext) < Len(MAGIC_HEADER) + NONCE_SIZE
  THEN Err("Crypto", "Ciphertext too short")
  ELSE IF Take(ciphertext, Len(MAGIC_HEADER)) # MAGIC_HEADER
  THEN Err("Crypto", "Invalid encrypted data format")
  ELSE swallow(AeadDecrypt(key,
                           Take(Drop(ciphertext, Len(MAGIC_HEADER)), NONCE_SIZE),
                           Drop(ciphertext, Len(MAGIC_HEADER) + NONCE_SIZE)))

decrypt(key, ciphertext) ==
  LET min_size == Len(MAGIC_HEADER) + NONCE_SIZE
  IN  IF Len(ciphertext) < min_size
      THEN Err("Crypto", "Ciphertext too short")
      ELSE IF Take(ciphertext, Len(MAGIC_HEADER)) # MAGIC_HEADER
      THEN Err("Crypto", "Invalid encrypted data format")
      ELSE IF Len(key) # KEY_SIZE
      THEN Err("Crypto", "InvalidLength")
      ELSE LET data == Drop(ciphertext, Len(MAGIC_HEADER))
               nonce_bytes == Take(data, NONCE_SIZE)
               encrypted_data == Drop(data, NONCE_SIZE)
           IN  AeadDecrypt(key, nonce_bytes, encrypted_data)

is_encrypted(data) ==
  /\ Len(data) >= Len(MAGIC_HEADER)
  /\ Take(data, Len(MAGIC_HEADER)) = MAGIC_HEADER

(***************************************************************************)
(* State                                                                   *)
(***************************************************************************)
VARIABLES
  codec,   \* one use of a CryptoKey: encrypt then decrypt, or repeated encrypts
  naming,  \* one derivation of a recipient name by add-ssh-user
  persist, \* per writer process: how far its save_key or export_key has got
  fs,      \* per repository: the .git/git-crypt tree
  config,  \* per repository: the git configuration entries that are set
  files,   \* files outside the repositories (export targets, key files)
  last     \* the most recent command or KeyManager call and its outcome

vars ==
  <<codec, naming, persist, fs, config, files, last>>

(***************************************************************************)
(* Codec: CryptoKey::encrypt followed by CryptoKey::decrypt                *)
(***************************************************************************)
\* b with the byte at position i changed by d (mod 256)
Tamper(b, i, d) ==
  [b EXCEPT ![i] = (b[i] + d) % 256]

\* every single-byte change of b, and b cut short
Tampered(b) ==
  {Tamper(b, i, d) : i \in 1..Len(b), d \in Deltas}
    \cup {Take(b, n) : n \in {Len(MAGIC_HEADER) + NONCE_SIZE, Len(b) - 1}}

CodecInit ==
  codec \in [pc : {"start"}, key : KeySet, plaintext : Plaintexts,
             blob : {<<>>}, dkey : {K1}, input : {<<>>}, result : {Ok(<<>>)}]

Encrypt ==
  /\ codec.pc = "start"
  /\ \E nonce_bytes \in NonceSet :
       codec' = [codec EXCEPT !.pc = "encrypted",
                              !.blob = encrypt(codec.key, codec.plaintext, nonce_bytes).val]
  /\ UNCHANGED <<naming, persist, fs, config, files, last>>

Decrypt ==
  /\ codec.pc = "encrypted"
  /\ \E dkey \in KeySet, input \in {codec.blob} \cup Tampered(codec.blob) \cup Inputs :
       codec' = [codec EXCEPT !.pc = "decrypted", !.dkey = dkey, !.input = input,
                              !.result = decrypt(dkey, input)]
  /\ UNCHANGED <<naming, persist, fs, config, files, last>>

\* the same key encrypting the same plaintext several times
RepeatInit ==
  codec \in [pc : {"repeat"}, key : KeySet, plaintext : Plaintexts,
             nonces : {<<>>}, blobs : {<<>>}]

EncryptAgain ==
  /\ codec.pc = "repeat"
  /\ Len(codec.blobs) < MaxCalls
  /\ \E nonce_bytes \in NonceSet :
       codec' = [codec EXCEPT
                   !.nonces = Append(@, nonce_bytes),
                   !.blobs = Append(@, encrypt(codec.key, codec.plaintext,
                                               nonce_bytes).val)]
  /\ UNCHANGED <<naming, persist, fs, config, files, last>>

(***************************************************************************)
(* Files                                                                   *)
(***************************************************************************)
NoFile ==
  [exists |-> FALSE, data |-> <<>>, mode |-> 0]

File(data, mode) ==
  [exists |-> TRUE, data |-> data, mode |-> mode]

\* File::create followed by write_all and set_permissions(0o600)
WriteOwnerOnly(data) ==
  File(data, MODE_OWNER_RW)

Repos ==
  {"A", "B"}

\* paths outside the repositories that commands are pointed at
Paths ==
  {"exported.key", "invalid.key", "long.key"}

\* b"too short": a key file of the wrong size
TooShort ==
  <<116, 111, 111, 32, 115, 104, 111, 114, 116>>

\* a key file one byte too long: 32 key bytes and a line feed
TooLong ==
  [i \in 1..(KEY_SIZE + 1) |-> IF i <= KEY_SIZE THEN i ELSE 10]

\* an empty .git directory: no git-crypt directory, no key
EmptyGitDir ==
  [git_crypt_dir |-> FALSE, keys_dir |-> FALSE, default |-> NoFile, age |-> <<>>]

(***************************************************************************)
(* KeyManager (src/key.rs), on the tree st of one repository               *)
(***************************************************************************)
is_initialized(st) ==
  st.git_crypt_dir

\* init_dirs without the exists() check (create_dir_all alone)
init_dirs_no_check(st) ==
  [res |-> Ok(<<>>),
   st |-> [st EXCEPT !.git_crypt_dir = TRUE, !.keys_dir = TRUE]]

init_dirs(st) ==
  IF st.git_crypt_dir
  THEN [res |-> Err("AlreadyInitialized", ""), st |-> st]
  ELSE [res |-> Ok(<<>>),
        st |-> [st EXCEPT !.git_crypt_dir = TRUE, !.keys_dir = TRUE]]

\* save_key that opens the file with create_new and so keeps an existing key
save_key_create_new(st, key) ==
  IF st.default.exists
  THEN [res |-> Ok(<<>>), st |-> st]
  ELSE [res |-> Ok(<<>>),
        st |-> [st EXCEPT !.git_crypt_dir = TRUE, !.keys_dir = TRUE,
                          !.default = WriteOwnerOnly(key)]]

save_key(st, key) ==
  [res |-> Ok(<<>>),
   st |-> [st EXCEPT !.git_crypt_dir = TRUE, !.keys_dir = TRUE,
                     !.default = WriteOwnerOnly(key)]]

\* key is the value CryptoKey::generate drew
generate_key(st, key) ==
  LET s == save_key(st, key)
  IN  [res |-> IF s.res.ok THEN Ok(key) ELSE s.res, st |-> s.st]

\* load_key that returns whatever the file holds, without from_bytes
load_key_unchecked(st) ==
  IF ~st.default.exists
  THEN Err("KeyNotFound", "default")
  ELSE Ok(st.default.data)

load_key(st) ==
  IF ~st.default.exists
  THEN Err("KeyNotFound", "default")
  ELSE from_bytes(st.default.data)

\* export_key that ends the file with a newline (writeln for write_all)
export_key_newline(st, out) ==
  IF ~st.default.exists
  THEN [res |-> Err("KeyNotFound", "default"), file |-> out]
  ELSE [res |-> Ok(<<>>), file |-> WriteOwnerOnly(st.default.data \o <<10>>)]

\* export_key without the set_permissions call: the file keeps the mode it
\* had, or the mode File::create gives a new file
export_key_keep_mode(st, out) ==
  IF ~load_key(st).ok
  THEN [res |-> load_key(st), file |-> out]
  ELSE [res |-> Ok(<<>>),
        file |-> File(load_key(st).val,
                      IF out.exists THEN out.mode ELSE MODE_CREATED)]

\* out is the file now at output_path; the result carries the file afterwards
export_key(st, out) ==
  LET k == load_key(st)
  IN  IF ~k.ok
      THEN [res |-> k, file |-> out]
      ELSE [res |-> Ok(<<>>), file |-> WriteOwnerOnly(k.val)]

\* import_key that copies the file into place without CryptoKey::from_bytes
import_key_copy(st, in) ==
  IF ~in.exists
  THEN [res |-> Err("Io", "No such file or directory"), st |-> st]
  ELSE [res |-> Ok(<<>>),
        st |-> [st EXCEPT !.git_crypt_dir = TRUE, !.keys_dir = TRUE,
                          !.default = WriteOwnerOnly(in.data)]]

\* in is the file now at input_path
import_key(st, in) ==
  IF ~in.exists
  THEN [res |-> Err("Io", "No such file or directory"), st |-> st]
  ELSE LET k == from_bytes(in.data)
       IN  IF ~k.ok
           THEN [res |-> k, st |-> st]
           ELSE save_key(st, k.val)

(***************************************************************************)
(* GitRepo (src/git.rs): the filter entries of the git configuration       *)
(***************************************************************************)
FilterSettings ==
  {"filter.git-crypt.clean", "filter.git-crypt.smudge",
   "filter.git-crypt.diff", "filter.git-crypt.required"}

configure_filters(cfg) ==
  cfg \cup FilterSettings

remove_filters(cfg) ==
  cfg \ FilterSettings

(***************************************************************************)
(* The filters (src/git.rs): stdin is read whole, then stdout is written.  *)
(* read tells whether the process consumed its standard input.             *)
(***************************************************************************)
\* "*** This file is encrypted with git-crypt ***\n"
DIFF_MARKER ==
  <<42, 42, 42, 32, 84, 104, 105, 115, 32, 102, 105, 108, 101, 32, 105, 115,
    32, 101, 110, 99, 114, 121, 112, 116, 101, 100, 32, 119, 105, 116, 104,
    32, 103, 105, 116, 45, 99, 114, 121, 112, 116, 32, 42, 42, 42, 10>>

\* let out = computed?; io::stdout().write_all(&out)?; Ok(())
write_result(computed) ==
  IF ~computed.ok
  THEN [res |-> computed, read |-> TRUE, stdout |-> <<>>]
  ELSE [res |-> Ok(<<>>), read |-> TRUE, stdout |-> computed.val]

\* clean_filter without the is_encrypted check
clean_filter_always(key, input, nonce_bytes) ==
  write_result(encrypt(key, input, nonce_bytes))

clean_filter(key, input, nonce_bytes) ==
  IF is_encrypted(input)
  THEN [res |-> Ok(<<>>), read |-> TRUE, stdout |-> input]
  ELSE write_result(encrypt(key, input, nonce_bytes))

\* smudge_filter with the is_encrypted test inverted
smudge_filter_inverted(key, input) ==
  IF is_encrypted(input)
  THEN [res |-> Ok(<<>>), read |-> TRUE, stdout |-> input]
  ELSE write_result(decrypt(key, input))

\* the outcome of a smudge that falls back to echoing its input when
\* decryption fails, and still reports the failure
echo_on_failure(input, decrypted) ==
  IF ~decrypted.ok
  THEN [res |-> decrypted, read |-> TRUE, stdout |-> input]
  ELSE [res |-> Ok(<<>>), read |-> TRUE, stdout |-> decrypted.val]

smudge_filter_echo(key, input) ==
  IF ~is_encrypted(input)
  THEN [res |-> Ok(<<>>), read |-> TRUE, stdout |-> input]
  ELSE echo_on_failure(input, decrypt(key, input))

smudge_filter(key, input) ==
  IF ~is_encrypted(input)
  THEN [res |-> Ok(<<>>), read |-> TRUE, stdout |-> input]
  ELSE write_result(decrypt(key, input))

\* diff_filter writing the marker line and then the content
diff_filter_with_content(input) ==
  IF is_encrypted(input)
  THEN [res |-> Ok(<<>>), read |-> TRUE, stdout |-> DIFF_MARKER \o input]
  ELSE [res |-> Ok(<<>>), read |-> TRUE, stdout |-> input]

diff_filter(input) ==
  IF is_encrypted(input)
  THEN [res |-> Ok(<<>>), read |-> TRUE, stdout |-> DIFF_MARKER]
  ELSE [res |-> Ok(<<>>), read |-> TRUE, stdout |-> input]

(***************************************************************************)
(* The filter commands (src/commands/filters.rs)                           *)
(***************************************************************************)
clean(st, input, nonce_bytes) ==
  IF ~is_initialized(st)
  THEN [res |-> Err("NotInitialized", ""), read |-> FALSE, stdout |-> <<>>]
  ELSE LET key == load_key(st)
       IN  IF ~key.ok
           THEN [res |-> key, read |-> FALSE, stdout |-> <<>>]
           ELSE clean_filter(key.val, input, nonce_bytes)

smudge(st, input) ==
  IF ~is_initialized(st)
  THEN [res |-> Err("NotInitialized", ""), read |-> FALSE, stdout |-> <<>>]
  ELSE LET key == load_key(st)
       IN  IF ~key.ok
           THEN [res |-> key, read |-> FALSE, stdout |-> <<>>]
           ELSE smudge_filter(key.val, input)

diff(st, input) ==
  diff_filter(input)

(***************************************************************************)
(* The commands (src/commands/*.rs): each returns its result, the tree and *)
(* the configuration it leaves, and the lines it printed                   *)
(***************************************************************************)
None ==
  [some |-> FALSE, file |-> NoFile]

Some(f) ==
  [some |-> TRUE, file |-> f]

\* init without the is_initialized check
init_unguarded(st, cfg, key) ==
  [res |-> Ok(<<>>), st |-> generate_key(init_dirs_no_check(st).st, key).st,
   cfg |-> configure_filters(cfg),
   printed |-> <<"Initializing git-crypt...", "Generated new encryption key",
                 "Configured git filters", "Initialization complete!">>]

\* key is the value CryptoKey::generate would draw
init(st, cfg, key) ==
  IF is_initialized(st)
  THEN [res |-> Ok(<<>>), st |-> st, cfg |-> cfg,
        printed |-> <<"Initializing git-crypt...",
                      "Repository already initialized for git-crypt">>]
  ELSE LET d == init_dirs(st)
       IN  IF ~d.res.ok
           THEN [res |-> d.res, st |-> d.st, cfg |-> cfg,
                 printed |-> <<"Initializing git-crypt...">>]
           ELSE LET g == generate_key(d.st, key)
                IN  IF ~g.res.ok
                    THEN [res |-> g.res, st |-> g.st, cfg |-> cfg,
                          printed |-> <<"Initializing git-crypt...">>]
                    ELSE [res |-> Ok(<<>>), st |-> g.st,
                          cfg |-> configure_filters(cfg),
                          printed |-> <<"Initializing git-crypt...",
                                        "Generated new encryption key",
                                        "Configured git filters",
                                        "Initialization complete!">>]

\* lock that also removes the key file from the repository
lock_discard_key(st, cfg) ==
  IF ~is_initialized(st)
  THEN [res |-> Err("NotInitialized", ""), st |-> st, cfg |-> cfg,
        printed |-> <<"Locking repository...">>]
  ELSE [res |-> Ok(<<>>), st |-> [st EXCEPT !.default = NoFile],
        cfg |-> remove_filters(cfg),
        printed |-> <<"Locking repository...", "Repository locked!">>]

\* lock with config.remove(..)? in place of let _ = config.remove(..): an
\* entry that is not set is an error
lock_strict(st, cfg) ==
  IF ~is_initialized(st)
  THEN [res |-> Err("NotInitialized", ""), st |-> st, cfg |-> cfg,
        printed |-> <<"Locking repository...">>]
  ELSE IF ~(FilterSettings \subseteq cfg)
  THEN [res |-> Err("Git", "config value not found"), st |-> st, cfg |-> cfg,
        printed |-> <<"Locking repository...">>]
  ELSE [res |-> Ok(<<>>), st |-> st, cfg |-> remove_filters(cfg),
        printed |-> <<"Locking repository...", "Repository locked!">>]

lock(st, cfg) ==
  IF ~is_initialized(st)
  THEN [res |-> Err("NotInitialized", ""), st |-> st, cfg |-> cfg,
        printed |-> <<"Locking repository...">>]
  ELSE [res |-> Ok(<<>>), st |-> st, cfg |-> remove_filters(cfg),
        printed |-> <<"Locking repository...", "Repository locked!">>]

\* unlock without the load_key that verifies the key exists
unlock_unverified(st, cfg, key_file) ==
  IF ~is_initialized(st)
  THEN [res |-> Err("NotInitialized", ""), st |-> st, cfg |-> cfg,
        printed |-> <<"Unlocking repository...">>]
  ELSE IF key_file.some /\ ~import_key(st, key_file.file).res.ok
  THEN [res |-> import_key(st, key_file.file).res, st |-> st, cfg |-> cfg,
        printed |-> <<"Unlocking repository...", "Importing key">>]
  ELSE [res |-> Ok(<<>>),
        st |-> IF key_file.some THEN import_key(st, key_file.file).st ELSE st,
        cfg |-> configure_filters(cfg),
        printed |-> <<"Unlocking repository...",
                      "Repository unlocked successfully!">>]

\* key_file is None or Some(the file now at the path given)
unlock(st, cfg, key_file) ==
  IF ~is_initialized(st)
  THEN [res |-> Err("NotInitialized", ""), st |-> st, cfg |-> cfg,
        printed |-> <<"Unlocking repository...">>]
  ELSE LET i == IF key_file.some
                THEN import_key(st, key_file.file)
                ELSE [res |-> Ok(<<>>), st |-> st]
           p == IF key_file.some
                THEN <<"Unlocking repository...", "Importing key">>
                ELSE <<"Unlocking repository...">>
       IN  IF ~i.res.ok
           THEN [res |-> i.res, st |-> i.st, cfg |-> cfg, printed |-> p]
           ELSE LET k == load_key(i.st)
                IN  IF ~k.ok
                    THEN [res |-> k, st |-> i.st, cfg |-> cfg, printed |-> p]
                    ELSE [res |-> Ok(<<>>), st |-> i.st,
                          cfg |-> configure_filters(cfg),
                          printed |-> p \o <<"Repository unlocked successfully!">>]

\* commands::export_key
commands_export_key(st, out) ==
  IF ~is_initialized(st)
  THEN [res |-> Err("NotInitialized", ""), file |-> out,
        printed |-> <<"Exporting key">>]
  ELSE LET e == export_key(st, out)
       IN  [res |-> e.res, file |-> e.file,
            printed |-> IF e.res.ok
                        THEN <<"Exporting key", "Key exported successfully!">>
                        ELSE <<"Exporting key">>]

\* commands::import_key
commands_import_key(st, in) ==
  IF ~is_initialized(st)
  THEN [res |-> Err("NotInitialized", ""), st |-> st,
        printed |-> <<"Importing key">>]
  ELSE LET i == import_key(st, in)
       IN  [res |-> i.res, st |-> i.st,
            printed |-> IF i.res.ok
                        THEN <<"Importing key", "Key imported successfully!">>
                        ELSE <<"Importing key">>]

(***************************************************************************)
(* Text: a string is a sequence of one-character strings                   *)
(***************************************************************************)
Digits ==
  {"0", "1", "2", "3", "4", "5", "6", "7", "8", "9"}

Letters ==
  {"a", "b", "c", "d", "e", "f", "g", "h", "i", "j", "k", "l", "m", "n", "o",
   "p", "q", "r", "s", "t", "u", "v", "w", "x", "y", "z", "A", "B", "C", "D",
   "E", "F", "G", "H", "I", "J", "K", "L", "M", "N", "O", "P", "Q", "R", "S",
   "T", "U", "V", "W", "X", "Y", "Z"}

\* char::is_ascii_alphanumeric
is_ascii_alphanumeric(c) ==
  c \in Digits \cup Letters

\* char::is_whitespace, for the characters that occur
is_whitespace(c) ==
  c \in {" ", "\t", "\n"}

HEX_DIGITS ==
  <<"0", "1", "2", "3", "4", "5", "6", "7", "8", "9", "a", "b", "c", "d", "e", "f">>

\* hex::encode of a byte string
RECURSIVE hex_encode(_)
hex_encode(bytes) ==
  IF bytes = <<>>
  THEN <<>>
  ELSE <<HEX_DIGITS[(Head(bytes) \div 16) + 1], HEX_DIGITS[(Head(bytes) % 16) + 1]>>
         \o hex_encode(Tail(bytes))

\* the characters of the model, in a fixed order; a character's code is its
\* position
CHARSET ==
  <<" ", "\n", "\t", "-", "_", ".", "/", "@", "!", "*", "0", "1", "2", "3", "4",
    "5", "6", "7", "8", "9", "a", "b", "c", "d", "e", "f", "g", "h", "i", "j",
    "k", "l", "m", "n", "o", "p", "q", "r", "s", "t", "u", "v", "w", "x", "y",
    "z", "A", "B", "C", "D", "E", "F", "G", "H", "I", "J", "K", "L", "M", "N",
    "O", "P", "Q", "R", "S", "T", "U", "V", "W", "X", "Y", "Z">>

CharCode(c) ==
  CHOOSE i \in 1..Len(CHARSET) : CHARSET[i] = c

\* str::split_whitespace: the maximal runs of non-whitespace characters
RECURSIVE split_whitespace(_)
split_whitespace(text) ==
  IF text = <<>>
  THEN <<>>
  ELSE IF is_whitespace(Head(text))
  THEN split_whitespace(Tail(text))
  ELSE LET rest == split_whitespace(Tail(text))
       IN  IF Len(text) > 1 /\ ~is_whitespace(text[2])
           THEN <<<<Head(text)>> \o Head(rest)>> \o Tail(rest)
           ELSE <<<<Head(text)>>>> \o rest

\* str::trim
RECURSIVE trim(_)
trim(text) ==
  IF text = <<>>
  THEN <<>>
  ELSE IF is_whitespace(Head(text))
  THEN trim(Tail(text))
  ELSE IF is_whitespace(text[Len(text)])
  THEN trim(SubSeq(text, 1, Len(text) - 1))
  ELSE text

\* Option<String>
NoText ==
  [some |-> FALSE, text |-> <<>>]

SomeText(t) ==
  [some |-> TRUE, text |-> t]

\* Option::filter(|s| !s.is_empty())
non_empty(o) ==
  IF o.some /\ o.text # <<>> THEN o ELSE NoText

\* Iterator::nth(n), counting from 0
nth(tokens, n) ==
  IF n < Len(tokens) THEN SomeText(tokens[n + 1]) ELSE NoText

\* position of the last c in s, 0 if there is none
RECURSIVE rfind(_, _)
rfind(s, c) ==
  IF s = <<>>
  THEN 0
  ELSE IF s[Len(s)] = c
  THEN Len(s)
  ELSE rfind(SubSeq(s, 1, Len(s) - 1), c)

\* Path::components, without the root: the parts between '/', empty parts
\* and "." parts dropped
RECURSIVE components(_)
components(path) ==
  IF path = <<>>
  THEN <<>>
  ELSE LET i == rfind(path, "/")
           part == Drop(path, i)
           before == components(SubSeq(path, 1, IF i = 0 THEN 0 ELSE i - 1))
       IN  IF part = <<>> \/ part = <<".">>
           THEN before
           ELSE Append(before, part)

\* Path::file_name
file_name(path) ==
  LET c == components(path)
  IN  IF c = <<>> \/ c[Len(c)] = <<".", ".">>
      THEN NoText
      ELSE SomeText(c[Len(c)])

\* Path::file_stem
file_stem(path) ==
  LET name == file_name(path)
      dot == rfind(name.text, ".")
  IN  IF ~name.some
      THEN NoText
      ELSE IF dot <= 1
      THEN name
      ELSE SomeText(SubSeq(name.text, 1, dot - 1))

(***************************************************************************)
(* Recipient names (src/commands/add_ssh_user.rs)                          *)
(***************************************************************************)
\* sanitize_label that also keeps the path separator
sanitize_label_keep_slash(input) ==
  SelectSeq(input, LAMBDA c : is_ascii_alphanumeric(c) \/ c \in {"-", "_", ".", "/"})

sanitize_label(input) ==
  SelectSeq(input, LAMBDA c : is_ascii_alphanumeric(c) \/ c \in {"-", "_", "."})

\* Option::map(sanitize_label).filter(|s| !s.is_empty())
sanitized(o) ==
  non_empty(IF o.some THEN SomeText(sanitize_label(o.text)) ELSE NoText)

\* hasher.update(data): the running state over the characters of data
RECURSIVE Sha256Update(_)
Sha256Update(data) ==
  IF data = <<>>
  THEN 0
  ELSE (Sha256Update(SubSeq(data, 1, Len(data) - 1)) * 31
          + CharCode(data[Len(data)])) % 65521

\* hasher.finalize(): the 32 digest bytes
Sha256Final(state, len) ==
  [j \in 1..32 |-> (state * (2 * j + 1) + 7 * j + len) % 256]

\* sha2::Sha256 (external crate): a 32-byte digest of the text.  Stands in
\* for SHA-256 as a deterministic function of the whole text.
Sha256(data) ==
  Sha256Final(Sha256Update(data), Len(data))

SSH_PREFIX ==
  <<"s", "s", "h", "-">>

fallback_fingerprint(data) ==
  SSH_PREFIX \o hex_encode(Take(Sha256(data), 8))

\* derive_recipient_name taking the second token (nth(1)) for the comment
derive_recipient_name_second(ssh_key, ssh_key_path) ==
  LET comment == sanitized(nth(split_whitespace(ssh_key), 1))
      stem == sanitized(file_stem(ssh_key_path))
  IN  IF comment.some
      THEN comment.text
      ELSE IF stem.some
      THEN stem.text
      ELSE fallback_fingerprint(ssh_key)

derive_recipient_name(ssh_key, ssh_key_path) ==
  LET comment == sanitized(nth(split_whitespace(ssh_key), 2))
      stem == sanitized(file_stem(ssh_key_path))
  IN  IF comment.some
      THEN comment.text
      ELSE IF stem.some
      THEN stem.text
      ELSE fallback_fingerprint(ssh_key)

\* add_ssh_user, lines 29-32: let name = alias.map(..).filter(..).unwrap_or_else(..)
recipient_name(alias, ssh_key, ssh_key_path) ==
  LET a == sanitized(alias)
  IN  IF a.some THEN a.text ELSE derive_recipient_name(ssh_key, ssh_key_path)

(***************************************************************************)
(* age (external crate): SSH recipients, SSH identities and the encrypted  *)
(* file.  A key pair is named by its public key's base64 field.  The file  *)
(* is modelled as a header naming the recipient and carrying the wrapped   *)
(* file key, followed by the payload under the AEAD of the file key.       *)
(***************************************************************************)
KeyPairs ==
  {"A", "B"}

\* "ssh-ed25519"
SSH_ED25519 ==
  <<"s", "s", "h", "-", "e", "d", "2", "5", "5", "1", "9">>

\* the base64 field of the public keys of two key pairs
BLOB_A ==
  <<"A", "A", "A", "A">>

BLOB_B ==
  <<"B", "B", "B", "B">>

\* "age"
AGE_MAGIC ==
  <<97, 103, 101>>

\* the recipient stanza of the header: 'A' or 'B'
RecipientTag(pair) ==
  IF pair = "A" THEN 65 ELSE 66

\* the secret only the pair's private key gives access to
PairSecret(pair) ==
  IF pair = "A" THEN 40 ELSE 90

\* values the random file key of one encryption may take
FileKeys ==
  {17}

\* str::parse::<age::ssh::Recipient>()
parse_recipient(text) ==
  LET fields == split_whitespace(text)
  IN  IF Len(fields) < 2 \/ fields[1] # SSH_ED25519
      THEN Err("Age", "Invalid SSH recipient")
      ELSE IF fields[2] = BLOB_A
      THEN Ok("A")
      ELSE IF fields[2] = BLOB_B
      THEN Ok("B")
      ELSE Err("Age", "Invalid SSH recipient")

\* the text of the private key file of a pair
IdentityText(pair) ==
  <<"O", "P", "E", "N", "S", "S", "H", " ", "P", "R", "I", "V", "A", "T", "E",
    " ", "K", "E", "Y", " ">> \o (IF pair = "A" THEN BLOB_A ELSE BLOB_B)

\* age::ssh::Identity::from_buffer
parse_identity(text) ==
  IF text = IdentityText("A")
  THEN Ok("A")
  ELSE IF text = IdentityText("B")
  THEN Ok("B")
  ELSE Err("Age", "Invalid SSH identity")

\* the AEAD key and nonce of the payload, from the pair's secret and the
\* file key carried in the header
PayloadKey(pair, fk) ==
  [i \in 1..KEY_SIZE |-> (PairSecret(pair) + fk * i) % 256]

PayloadNonce(fk) ==
  [i \in 1..NONCE_SIZE |-> (fk + i) % 256]

\* Encryptor::wrap_output: the header
AgeHeader(pair, fk) ==
  AGE_MAGIC \o <<RecipientTag(pair), fk>>

\* writer.write_all(payload) and writer.finish(): the payload and its tag
AgePayload(pair, fk, payload) ==
  AeadEncrypt(PayloadKey(pair, fk), PayloadNonce(fk), payload)

\* Decryptor::new_buffered and decrypt with one identity, then read_to_end
AgeDecrypt(encrypted, pair) ==
  IF Len(encrypted) < Len(AGE_MAGIC) + 2
       \/ Take(encrypted, Len(AGE_MAGIC)) # AGE_MAGIC
  THEN Err("Age", "age decryption failed: Header is invalid")
  ELSE IF encrypted[Len(AGE_MAGIC) + 1] # RecipientTag(pair)
  THEN Err("Age", "age decryption failed: No matching keys found")
  ELSE LET fk == encrypted[Len(AGE_MAGIC) + 2]
           r == AeadDecrypt(PayloadKey(pair, fk), PayloadNonce(fk),
                            Drop(encrypted, Len(AGE_MAGIC) + 2))
       IN  IF r.ok THEN r ELSE Err("Age", "age decryption failed")

(***************************************************************************)
(* RageManager (src/rage.rs)                                               *)
(***************************************************************************)
\* encrypt_key_for_ssh_recipient without writer.finish(): the payload's tag
\* is never written
encrypt_key_no_finish(key, recipient, fk) ==
  IF ~parse_recipient(trim(recipient)).ok
  THEN parse_recipient(trim(recipient))
  ELSE Ok(AgeHeader(parse_recipient(trim(recipient)).val, fk)
            \o Take(AgePayload(parse_recipient(trim(recipient)).val, fk, key),
                    Len(key)))

\* fk is the file key the encryptor draws
encrypt_key_for_ssh_recipient(key, recipient, fk) ==
  LET r == parse_recipient(trim(recipient))
  IN  IF ~r.ok
      THEN r
      ELSE Ok(AgeHeader(r.val, fk) \o AgePayload(r.val, fk, key))

\* decrypt_key_with_ssh_identity returning the payload as it is, without
\* CryptoKey::from_bytes
decrypt_key_unchecked(encrypted, identity_content) ==
  IF ~parse_identity(identity_content).ok
  THEN parse_identity(identity_content)
  ELSE AgeDecrypt(encrypted, parse_identity(identity_content).val)

decrypt_key_with_ssh_identity(encrypted, identity_content) ==
  LET identity == parse_identity(identity_content)
  IN  IF ~identity.ok
      THEN identity
      ELSE LET plaintext == AgeDecrypt(encrypted, identity.val)
           IN  IF ~plaintext.ok
               THEN plaintext
               ELSE from_bytes(plaintext.val)

(***************************************************************************)
(* add-ssh-user and import-age-key (src/commands/add_ssh_user.rs,          *)
(* src/commands/import_age_key.rs)                                         *)
(***************************************************************************)
AGE_EXTENSION ==
  <<".", "a", "g", "e">>

\* fs::write(dir.join(file), bytes): the directory with that file created or
\* overwritten
WithFile(dir, file, bytes) ==
  [n \in (DOMAIN dir) \cup {file} |-> IF n = file THEN bytes ELSE dir[n]]

\* add_ssh_user that creates the output file before it encrypts the key
add_ssh_user_create_first(st, ssh_key, ssh_key_path, alias, fk) ==
  IF ~is_initialized(st)
  THEN [res |-> Err("NotInitialized", ""), st |-> st, name |-> <<>>,
        printed |-> <<"Adding SSH (age) user">>]
  ELSE IF ~load_key(st).ok
  THEN [res |-> load_key(st), st |-> st, name |-> <<>>,
        printed |-> <<"Adding SSH (age) user">>]
  ELSE IF ~encrypt_key_for_ssh_recipient(load_key(st).val, ssh_key, fk).ok
  THEN [res |-> encrypt_key_for_ssh_recipient(load_key(st).val, ssh_key, fk),
        st |-> [st EXCEPT !.age =
                  WithFile(@, recipient_name(alias, ssh_key, ssh_key_path)
                                \o AGE_EXTENSION, <<>>)],
        name |-> <<>>, printed |-> <<"Adding SSH (age) user">>]
  ELSE [res |-> Ok(<<>>),
        st |-> [st EXCEPT !.age =
                  WithFile(@, recipient_name(alias, ssh_key, ssh_key_path)
                                \o AGE_EXTENSION,
                           encrypt_key_for_ssh_recipient(load_key(st).val,
                                                         ssh_key, fk).val)],
        name |-> recipient_name(alias, ssh_key, ssh_key_path),
        printed |-> <<"Adding SSH (age) user", "Encrypted key saved">>]

\* ssh_key is the text of the file at ssh_key_path, fk the file key drawn
add_ssh_user(st, ssh_key, ssh_key_path, alias, fk) ==
  IF ~is_initialized(st)
  THEN [res |-> Err("NotInitialized", ""), st |-> st, name |-> <<>>,
        printed |-> <<"Adding SSH (age) user">>]
  ELSE LET key == load_key(st)
       IN  IF ~key.ok
           THEN [res |-> key, st |-> st, name |-> <<>>,
                 printed |-> <<"Adding SSH (age) user">>]
           ELSE LET encrypted_key ==
                      encrypt_key_for_ssh_recipient(key.val, ssh_key, fk)
                    name == recipient_name(alias, ssh_key, ssh_key_path)
                IN  IF ~encrypted_key.ok
                    THEN [res |-> encrypted_key, st |-> st, name |-> <<>>,
                          printed |-> <<"Adding SSH (age) user">>]
                    ELSE [res |-> Ok(<<>>),
                          st |-> [st EXCEPT !.age =
                                    WithFile(@, name \o AGE_EXTENSION,
                                             encrypted_key.val)],
                          name |-> name,
                          printed |-> <<"Adding SSH (age) user",
                                        "Encrypted key saved">>]

\* encrypted and identity are the contents of the two files named
import_age_key(st, encrypted, identity) ==
  IF ~is_initialized(st)
  THEN [res |-> Err("NotInitialized", ""), st |-> st,
        printed |-> <<"Importing age key">>]
  ELSE LET key == decrypt_key_with_ssh_identity(encrypted, identity)
       IN  IF ~key.ok
           THEN [res |-> key, st |-> st, printed |-> <<"Importing age key">>]
           ELSE [res |-> Ok(<<>>), st |-> save_key(st, key.val).st,
                 printed |-> <<"Importing age key",
                               "Repository key imported successfully using SSH identity.">>]

\* commands::add_gpg_user: GpgManager::encrypt_key_for_recipient returns an
\* error in every build (no GPG support compiled in, or the keyring lookup
\* that is not implemented), so the lines after it never run
add_gpg_user(st) ==
  IF ~is_initialized(st)
  THEN [res |-> Err("NotInitialized", ""), st |-> st,
        printed |-> <<"Adding GPG user">>]
  ELSE LET key == load_key(st)
       IN  IF ~key.ok
           THEN [res |-> key, st |-> st, printed |-> <<"Adding GPG user">>]
           ELSE [res |-> Err("Gpg", ""), st |-> st,
                 printed |-> <<"Adding GPG user">>]

\* Commands::Status
status ==
  [res |-> Ok(<<>>), printed |-> <<"Status command not yet implemented">>]

(***************************************************************************)
(* Inputs of add-ssh-user: --alias, the key file's text, the key path      *)
(***************************************************************************)
\* characters the drawn aliases and comments are made of
LabelChars ==
  {"a", "@", ".", "/"}

Labels ==
  UNION {[1..k -> LabelChars] : k \in 0..MaxLabel}

\* --alias absent, or present with any label (the empty one included)
Aliases ==
  {NoText} \cup {SomeText(l) : l \in Labels}

\* "this is not an ssh key"
NOT_A_KEY ==
  <<"t", "h", "i", "s", " ", "i", "s", " ", "n", "o", "t", " ", "a", "n", " ",
    "s", "s", "h", " ", "k", "e", "y">>

\* public key lines: type, base64 field, an optional comment, an optional
\* line feed
PublicKeyTexts(blobs, comments) ==
  {SSH_ED25519 \o <<" ">> \o b \o c \o nl :
     b \in blobs,
     c \in {<<>>} \cup {<<" ">> \o l : l \in comments},
     nl \in {<<>>, <<"\n">>}}

\* what the file at --ssh-key may hold
KeyTexts ==
  PublicKeyTexts({BLOB_A}, Labels) \cup {<<>>, NOT_A_KEY}

\* "id.pub", "keys/test-id.pub", "@.pub", ".pub", ".."
KeyPaths ==
  {<<"i", "d", ".", "p", "u", "b">>,
   <<"k", "e", "y", "s", "/", "t", "e", "s", "t", "-", "i", "d", ".", "p", "u", "b">>,
   <<"@", ".", "p", "u", "b">>,
   <<".", "p", "u", "b">>,
   <<".", ".">>}

(***************************************************************************)
(* Repositories: one process at a time runs one command or KeyManager call *)
(***************************************************************************)
\* what a command or call left behind for its caller
Ran(op, r, path, arg, stdin, read, stdout, printed, res) ==
  [op |-> op, repo |-> r, path |-> path, arg |-> arg, stdin |-> stdin,
   read |-> read, stdout |-> stdout, printed |-> printed, res |-> res]

\* b with its last byte inverted
FlipLast(b) ==
  [b EXCEPT ![Len(b)] = Xor(b[Len(b)], 255)]

\* what git may hand to a filter besides Inputs: what the clean filter
\* stored, intact, damaged or cut short
Stored ==
  IF last.op = "clean" /\ last.stdout # <<>>
  THEN {last.stdout, FlipLast(last.stdout),
        Take(last.stdout, Len(MAGIC_HEADER) + NONCE_SIZE)}
  ELSE {}

RepoInit ==
  /\ fs = [r \in Repos |-> EmptyGitDir]
  /\ config = [r \in Repos |-> {}]
  /\ files = [p \in Paths |->
                CASE p = "invalid.key" -> File(TooShort, MODE_CREATED)
                  [] p = "long.key"    -> File(TooLong, MODE_CREATED)
                  [] OTHER             -> NoFile]
  /\ last = Ran("none", "A", "", <<>>, <<>>, FALSE, <<>>, <<>>, Ok(<<>>))

CodecIdle ==
  codec = [pc |-> "idle", key |-> K1, plaintext |-> <<>>, blob |-> <<>>,
           dkey |-> K1, input |-> <<>>, result |-> Ok(<<>>)]

NamingIdle ==
  naming = [pc |-> "idle", alias |-> NoText, ssh_key |-> <<>>,
            ssh_key_path |-> <<>>, name |-> <<>>]

\* processes that may be inside save_key or export_key at the same time
Writers ==
  {"w1", "w2"}

IdleWriter ==
  [pc |-> "idle", op |-> "", repo |-> "A", path |-> "", key |-> <<>>]

PersistIdle ==
  persist = [w \in Writers |-> IdleWriter]

CmdInit(r) ==
  /\ \E key \in KeySet :
       \E c \in {init(fs[r], config[r], key)} :
         /\ fs' = [fs EXCEPT ![r] = c.st]
         /\ config' = [config EXCEPT ![r] = c.cfg]
         /\ last' = Ran("init", r, "", <<>>, <<>>, FALSE, <<>>, c.printed, c.res)
  /\ UNCHANGED <<codec, naming, persist, files>>

CmdLock(r) ==
  /\ \E c \in {lock(fs[r], config[r])} :
       /\ fs' = [fs EXCEPT ![r] = c.st]
       /\ config' = [config EXCEPT ![r] = c.cfg]
       /\ last' = Ran("lock", r, "", <<>>, <<>>, FALSE, <<>>, c.printed, c.res)
  /\ UNCHANGED <<codec, naming, persist, files>>

\* p = "" is unlock without --key-file
CmdUnlock(r, p) ==
  /\ \E c \in {unlock(fs[r], config[r], IF p = "" THEN None ELSE Some(files[p]))} :
       /\ fs' = [fs EXCEPT ![r] = c.st]
       /\ config' = [config EXCEPT ![r] = c.cfg]
       /\ last' = Ran("unlock", r, p, <<>>, <<>>, FALSE, <<>>, c.printed, c.res)
  /\ UNCHANGED <<codec, naming, persist, files>>

CmdExportKey(r, p) ==
  /\ \E c \in {commands_export_key(fs[r], files[p])} :
       /\ files' = [files EXCEPT ![p] = c.file]
       /\ last' = Ran("export-key", r, p, <<>>, <<>>, FALSE, <<>>, c.printed, c.res)
  /\ UNCHANGED <<codec, naming, persist, fs, config>>

CmdImportKey(r, p) ==
  /\ \E c \in {commands_import_key(fs[r], files[p])} :
       /\ fs' = [fs EXCEPT ![r] = c.st]
       /\ last' = Ran("import-key", r, p, <<>>, <<>>, FALSE, <<>>, c.printed, c.res)
  /\ UNCHANGED <<codec, naming, persist, config, files>>

\* the filter commands with input on standard input
RunClean(r, input, nonce_bytes) ==
  /\ \E c \in {clean(fs[r], input, nonce_bytes)} :
       last' = Ran("clean", r, "", <<>>, input, c.read, c.stdout, <<>>, c.res)
  /\ UNCHANGED <<codec, naming, persist, fs, config, files>>

RunSmudge(r, input) ==
  /\ \E c \in {smudge(fs[r], input)} :
       last' = Ran("smudge", r, "", <<>>, input, c.read, c.stdout, <<>>, c.res)
  /\ UNCHANGED <<codec, naming, persist, fs, config, files>>

RunDiff(r, input) ==
  /\ \E c \in {diff(fs[r], input)} :
       last' = Ran("diff", r, "", <<>>, input, c.read, c.stdout, <<>>, c.res)
  /\ UNCHANGED <<codec, naming, persist, fs, config, files>>

CmdClean(r) ==
  \E input \in Inputs \cup Stored, nonce_bytes \in NonceSet :
    RunClean(r, input, nonce_bytes)

CmdSmudge(r) ==
  \E input \in Inputs \cup Stored : RunSmudge(r, input)

CmdDiff(r) ==
  \E input \in Inputs \cup Stored : RunDiff(r, input)

CmdAddGpgUser(r) ==
  /\ \E c \in {add_gpg_user(fs[r])} :
       /\ fs' = [fs EXCEPT ![r] = c.st]
       /\ last' = Ran("add-gpg-user", r, "", <<>>, <<>>, FALSE, <<>>, c.printed, c.res)
  /\ UNCHANGED <<codec, naming, persist, config, files>>

CmdStatus(r) ==
  /\ \E c \in {status} :
       last' = Ran("status", r, "", <<>>, <<>>, FALSE, <<>>, c.printed, c.res)
  /\ UNCHANGED <<codec, naming, persist, fs, config, files>>

\* direct calls of the KeyManager, as a library user makes them
KmInitDirs(r) ==
  /\ \E c \in {init_dirs(fs[r])} :
       /\ fs' = [fs EXCEPT ![r] = c.st]
       /\ last' = Ran("init_dirs", r, "", <<>>, <<>>, FALSE, <<>>, <<>>, c.res)
  /\ UNCHANGED <<codec, naming, persist, config, files>>

KmGenerateKey(r) ==
  /\ \E key \in KeySet :
       \E c \in {generate_key(fs[r], key)} :
         /\ fs' = [fs EXCEPT ![r] = c.st]
         /\ last' = Ran("generate_key", r, "", <<>>, <<>>, FALSE, <<>>, <<>>, c.res)
  /\ UNCHANGED <<codec, naming, persist, config, files>>

KmSaveKey(r) ==
  /\ \E key \in KeySet :
       \E c \in {save_key(fs[r], key)} :
         /\ fs' = [fs EXCEPT ![r] = c.st]
         /\ last' = Ran("save_key", r, "", key, <<>>, FALSE, <<>>, <<>>, c.res)
  /\ UNCHANGED <<codec, naming, persist, config, files>>

KmLoadKey(r) ==
  /\ last' = Ran("load_key", r, "", <<>>, <<>>, FALSE, <<>>, <<>>, load_key(fs[r]))
  /\ UNCHANGED <<codec, naming, persist, fs, config, files>>

KmExportKey(r, p) ==
  /\ \E c \in {export_key(fs[r], files[p])} :
       /\ files' = [files EXCEPT ![p] = c.file]
       /\ last' = Ran("export_key", r, p, <<>>, <<>>, FALSE, <<>>, <<>>, c.res)
  /\ UNCHANGED <<codec, naming, persist, fs, config>>

KmImportKey(r, p) ==
  /\ \E c \in {import_key(fs[r], files[p])} :
       /\ fs' = [fs EXCEPT ![r] = c.st]
       /\ last' = Ran("import_key", r, p, <<>>, <<>>, FALSE, <<>>, <<>>, c.res)
  /\ UNCHANGED <<codec, naming, persist, config, files>>

\* what another program may leave at keys/default for load_key to find
KeyFileContents ==
  KeySet \cup {<<>>, TooShort, TooLong, Take(K1, KEY_SIZE - 1)}

\* the key file is written by something other than this program
EnvWriteKeyFile(r) ==
  /\ \E data \in KeyFileContents :
       fs' = [fs EXCEPT ![r] = [@ EXCEPT !.git_crypt_dir = TRUE,
                                         !.keys_dir = TRUE,
                                         !.default = File(data, MODE_CREATED)]]
  /\ last' = Ran("env", r, "", <<>>, <<>>, FALSE, <<>>, <<>>, Ok(<<>>))
  /\ UNCHANGED <<codec, naming, persist, config, files>>

(***************************************************************************)
(* save_key and export_key one system call at a time (src/key.rs 96-145):  *)
(* File::create, write_all, set_permissions.  Other processes run between. *)
(***************************************************************************)
\* modes File::create may give a new file: 0o666 masked by umask 022 or 077
CreateModes ==
  {MODE_CREATED, MODE_OWNER_RW}

\* File::create: a new empty file, or the existing file truncated with its
\* mode kept
Created(f, mode) ==
  IF f.exists THEN File(<<>>, f.mode) ELSE File(<<>>, mode)

\* write_all on a file opened for appending
WrittenAtEnd(f, bytes) ==
  [f EXCEPT !.data = f.data \o bytes]

\* write_all at offset 0 of a file opened by File::create
WrittenAtStart(f, bytes) ==
  [f EXCEPT !.data = bytes \o Drop(f.data, Len(bytes))]

\* set_permissions(path, 0o600)
Restricted(f) ==
  [f EXCEPT !.mode = MODE_OWNER_RW]

\* save_key, lines 97-100: create_dir_all and File::create
SaveKeyCreate(w, r) ==
  /\ persist[w].pc = "idle"
  /\ \E key \in KeySet, mode \in CreateModes :
       /\ fs' = [fs EXCEPT ![r] = [@ EXCEPT !.git_crypt_dir = TRUE,
                                            !.keys_dir = TRUE,
                                            !.default = Created(@, mode)]]
       /\ persist' = [persist EXCEPT ![w] = [pc |-> "created", op |-> "save_key",
                                             repo |-> r, path |-> "", key |-> key]]
  /\ UNCHANGED <<codec, naming, config, files, last>>

\* export_key, lines 132-133: load_key and File::create
ExportKeyCreate(w, r, p) ==
  /\ persist[w].pc = "idle"
  /\ \E k \in {load_key(fs[r])}, mode \in CreateModes :
       IF ~k.ok
       THEN /\ last' = Ran("export_key", r, p, <<>>, <<>>, FALSE, <<>>, <<>>, k)
            /\ UNCHANGED <<persist, files>>
       ELSE /\ files' = [files EXCEPT ![p] = Created(@, mode)]
            /\ persist' = [persist EXCEPT ![w] = [pc |-> "created",
                                                  op |-> "export_key", repo |-> r,
                                                  path |-> p, key |-> k.val]]
            /\ UNCHANGED last
  /\ UNCHANGED <<codec, naming, fs, config>>

\* lines 101 and 134: file.write_all(key.as_bytes())
PersistWrite(w) ==
  /\ persist[w].pc = "created"
  /\ IF persist[w].op = "save_key"
     THEN /\ fs' = [fs EXCEPT ![persist[w].repo].default =
                                 WrittenAtStart(@, persist[w].key)]
          /\ UNCHANGED files
     ELSE /\ files' = [files EXCEPT ![persist[w].path] =
                                       WrittenAtStart(@, persist[w].key)]
          /\ UNCHANGED fs
  /\ persist' = [persist EXCEPT ![w].pc = "written"]
  /\ UNCHANGED <<codec, naming, config, last>>

\* lines 104-112 and 136-144: set_mode(0o600), set_permissions, Ok(())
PersistSetPermissions(w) ==
  /\ persist[w].pc = "written"
  /\ IF persist[w].op = "save_key"
     THEN /\ fs' = [fs EXCEPT ![persist[w].repo].default = Restricted(@)]
          /\ UNCHANGED files
     ELSE /\ files' = [files EXCEPT ![persist[w].path] = Restricted(@)]
          /\ UNCHANGED fs
  /\ last' = Ran(persist[w].op, persist[w].repo, persist[w].path,
                 persist[w].key, <<>>, FALSE, <<>>, <<>>, Ok(<<>>))
  /\ persist' = [persist EXCEPT ![w] = IdleWriter]
  /\ UNCHANGED <<codec, naming, config>>

(***************************************************************************)
(* The init command one call at a time (src/commands/init.rs 16-31 with    *)
(* KeyManager::init_dirs, src/key.rs 71-81), as run by several processes.  *)
(* A process inside init has op "init" and pc one of                       *)
(*   "checked"    is_initialized() returned false                          *)
(*   "absent"     init_dirs found no git-crypt directory                   *)
(*   "dir_made"   create_dir_all(git-crypt) done                           *)
(*   "keys_made"  create_dir(git-crypt/keys) done: init_dirs returned Ok   *)
(*   "saved"      generate_key returned Ok                                 *)
(***************************************************************************)
InitRunning(w, pc) ==
  /\ persist[w].op = "init"
  /\ persist[w].pc = pc

\* the process returns from init (or is gone) with result res
InitReturns(w, r, printed, res) ==
  /\ persist' = [persist EXCEPT ![w] = IdleWriter]
  /\ last' = Ran("init", r, "", <<>>, <<>>, FALSE, <<>>, printed, res)

InitGoes(w, pc) ==
  /\ persist' = [persist EXCEPT ![w].pc = pc]
  /\ UNCHANGED last

\* init.rs 16-19: if key_manager.is_initialized() { println!(..); return Ok(()) }
InitCheck(w, r) ==
  /\ persist[w].pc = "idle"
  /\ IF is_initialized(fs[r])
     THEN /\ last' = Ran("init", r, "", <<>>, <<>>, FALSE, <<>>,
                         <<"Initializing git-crypt...",
                           "Repository already initialized for git-crypt">>,
                         Ok(<<>>))
          /\ UNCHANGED persist
     ELSE /\ persist' = [persist EXCEPT ![w] = [pc |-> "checked", op |-> "init",
                                                repo |-> r, path |-> "",
                                                key |-> <<>>]]
          /\ UNCHANGED last
  /\ UNCHANGED <<codec, naming, fs, config, files>>

\* key.rs 72-75: if git_crypt_dir.exists() { return Err(AlreadyInitialized) }
InitDirsCheck(w) ==
  /\ InitRunning(w, "checked")
  /\ IF fs[persist[w].repo].git_crypt_dir
     THEN InitReturns(w, persist[w].repo, <<"Initializing git-crypt...">>,
                      Err("AlreadyInitialized", ""))
     ELSE InitGoes(w, "absent")
  /\ UNCHANGED <<codec, naming, fs, config, files>>

\* key.rs 77: fs::create_dir_all(&git_crypt_dir)?, which succeeds when the
\* directory exists
InitCreateDirAll(w) ==
  /\ InitRunning(w, "absent")
  /\ fs' = [fs EXCEPT ![persist[w].repo].git_crypt_dir = TRUE]
  /\ InitGoes(w, "dir_made")
  /\ UNCHANGED <<codec, naming, config, files>>

\* the keys directory made with create_dir_all, which succeeds when the
\* directory exists
InitCreateDirAllKeys(w) ==
  /\ InitRunning(w, "dir_made")
  /\ fs' = [fs EXCEPT ![persist[w].repo].keys_dir = TRUE]
  /\ InitGoes(w, "keys_made")
  /\ UNCHANGED <<codec, naming, config, files>>

\* key.rs 78: fs::create_dir(git_crypt_dir.join("keys"))?, which fails when
\* the directory exists
InitCreateDirKeys(w) ==
  /\ InitRunning(w, "dir_made")
  /\ IF fs[persist[w].repo].keys_dir
     THEN /\ InitReturns(w, persist[w].repo, <<"Initializing git-crypt...">>,
                         Err("Io", "File exists"))
          /\ UNCHANGED fs
     ELSE /\ fs' = [fs EXCEPT ![persist[w].repo].keys_dir = TRUE]
          /\ InitGoes(w, "keys_made")
  /\ UNCHANGED <<codec, naming, config, files>>

\* init.rs 25: key_manager.generate_key()?
InitGenerateKey(w) ==
  /\ InitRunning(w, "keys_made")
  /\ \E key \in KeySet :
       \E g \in {generate_key(fs[persist[w].repo], key)} :
         /\ fs' = [fs EXCEPT ![persist[w].repo] = g.st]
         /\ persist' = [persist EXCEPT ![w].pc = "saved", ![w].key = key]
  /\ UNCHANGED <<codec, naming, config, files, last>>

\* init.rs 29-40: repo.configure_filters()?; ...; Ok(())
InitConfigure(w) ==
  /\ InitRunning(w, "saved")
  /\ config' = [config EXCEPT ![persist[w].repo] = configure_filters(@)]
  /\ InitReturns(w, persist[w].repo,
                 <<"Initializing git-crypt...", "Generated new encryption key",
                   "Configured git filters", "Initialization complete!">>,
                 Ok(<<>>))
  /\ UNCHANGED <<codec, naming, fs, files>>

\* the process is terminated where it stands
InitKilled(w) ==
  /\ persist[w].op = "init"
  /\ persist[w].pc # "idle"
  /\ InitReturns(w, persist[w].repo, <<"Initializing git-crypt...">>,
                 Err("Terminated", ""))
  /\ UNCHANGED <<codec, naming, fs, config, files>>

\* "id.pub"
ID_PUB ==
  <<"i", "d", ".", "p", "u", "b">>

\* aliases and key files given to add-ssh-user when it runs as a command:
\* the two key pairs with the same comment, one of them also with no
\* comment and with a comment that sanitizes to nothing; and a file that is
\* no key
RecipientAliases ==
  {NoText, SomeText(<<"a">>)}

RecipientKeyTexts ==
  {SSH_ED25519 \o <<" ">> \o BLOB_A \o <<" ", "a">>,
   SSH_ED25519 \o <<" ">> \o BLOB_B,
   SSH_ED25519 \o <<" ">> \o BLOB_B \o <<" ", "a", "\n">>,
   SSH_ED25519 \o <<" ">> \o BLOB_B \o <<" ", "@">>,
   NOT_A_KEY}

\* the identity files import-age-key may be pointed at
IdentityPaths ==
  {"id_A", "id_B", "not_an_identity"}

IdentityFile(p) ==
  CASE p = "id_A" -> IdentityText("A")
    [] p = "id_B" -> IdentityText("B")
    [] OTHER      -> NOT_A_KEY

\* an age file made with another tool for pair A: its payload is not a key
FOREIGN_ENVELOPE ==
  AgeHeader("A", 17) \o AgePayload("A", 17, TooShort)

\* the wrapped keys stored in the repositories
StoredEnvelopes ==
  UNION {{fs[r].age[n] : n \in DOMAIN fs[r].age} : r \in Repos}

\* what the file given to import-age-key may hold: a stored wrapped key,
\* intact or damaged, or the foreign file
EnvelopesOffered ==
  StoredEnvelopes
    \cup {FlipLast(e) : e \in StoredEnvelopes}
    \cup {FOREIGN_ENVELOPE}

\* add-ssh-user --ssh-key id.pub [--alias alias], id.pub holding ssh_key
RunAddSshUser(r, alias, ssh_key, fk) ==
  /\ \E c \in {add_ssh_user(fs[r], ssh_key, ID_PUB, alias, fk)} :
       /\ fs' = [fs EXCEPT ![r] = c.st]
       /\ naming' = [pc |-> IF c.res.ok THEN "named" ELSE "failed",
                     alias |-> alias, ssh_key |-> ssh_key,
                     ssh_key_path |-> ID_PUB, name |-> c.name]
       /\ last' = Ran("add-ssh-user", r, "", <<>>, <<>>, FALSE, <<>>, c.printed, c.res)
  /\ UNCHANGED <<codec, persist, config, files>>

\* import-age-key --input (a file holding encrypted) --identity p
RunImportAgeKey(r, encrypted, p) ==
  /\ \E c \in {import_age_key(fs[r], encrypted, IdentityFile(p))} :
       /\ fs' = [fs EXCEPT ![r] = c.st]
       /\ last' = Ran("import-age-key", r, p, encrypted, <<>>, FALSE, <<>>,
                      c.printed, c.res)
  /\ UNCHANGED <<codec, naming, persist, config, files>>

CmdAddSshUser(r) ==
  \E alias \in RecipientAliases, ssh_key \in RecipientKeyTexts, fk \in FileKeys :
    RunAddSshUser(r, alias, ssh_key, fk)

CmdImportAgeKey(r) ==
  \E encrypted \in EnvelopesOffered, p \in IdentityPaths :
    RunImportAgeKey(r, encrypted, p)

\* one derivation of the recipient name
NamingInit ==
  naming \in [pc : {"start"}, alias : Aliases, ssh_key : KeyTexts,
              ssh_key_path : KeyPaths, name : {<<>>}]

DeriveName ==
  /\ naming.pc = "start"
  /\ naming' = [naming EXCEPT !.pc = "named",
                              !.name = recipient_name(naming.alias, naming.ssh_key,
                                                      naming.ssh_key_path)]
  /\ UNCHANGED <<codec, persist, fs, config, files, last>>

(***************************************************************************)
(* Specifications                                                          *)
(***************************************************************************)
Init ==
  /\ RepoInit
  /\ CodecIdle
  /\ NamingIdle
  /\ PersistIdle

\* Spec: the key store and the commands that manage it.  The filters change
\* nothing on disk, so they are left to SpecFilters and SpecShare.
Next ==
  \E r \in Repos :
    \/ CmdInit(r)
    \/ CmdLock(r)
    \/ \E p \in Paths \cup {""} : CmdUnlock(r, p)
    \/ \E p \in Paths : CmdExportKey(r, p)
    \/ \E p \in Paths : CmdImportKey(r, p)
    \/ KmInitDirs(r)
    \/ KmGenerateKey(r)
    \/ KmSaveKey(r)
    \/ KmLoadKey(r)
    \/ \E p \in Paths : KmExportKey(r, p)
    \/ \E p \in Paths : KmImportKey(r, p)

Spec ==
  Init /\ [][Next]_vars

\* SpecFilters: the three filters, run in repositories that are not
\* initialized, hold only the directories, or hold a key.
NextFilters ==
  \E r \in Repos :
    \/ CmdInit(r)
    \/ KmInitDirs(r)
    \/ CmdClean(r)
    \/ CmdSmudge(r)
    \/ CmdDiff(r)

SpecFilters ==
  Init /\ [][NextFilters]_vars

\* SpecShare: a key exported from one repository and imported into another,
\* with the clean and smudge filters run on either side.
NextShare ==
  \E r \in Repos :
    \/ CmdInit(r)
    \/ CmdExportKey(r, "exported.key")
    \/ CmdImportKey(r, "exported.key")
    \/ CmdClean(r)
    \/ CmdSmudge(r)

SpecShare ==
  Init /\ [][NextShare]_vars

\* SpecKeyFile: load_key on whatever is found at keys/default, written by
\* this program or by another.
NextKeyFile ==
  \E r \in Repos :
    \/ KmInitDirs(r)
    \/ KmSaveKey(r)
    \/ KmLoadKey(r)
    \/ EnvWriteKeyFile(r)

SpecKeyFile ==
  Init /\ [][NextKeyFile]_vars

\* SpecPersist: the writer processes each inside save_key or export_key,
\* their system calls interleaved.
NextPersist ==
  \E w \in Writers :
    \/ \E r \in Repos : SaveKeyCreate(w, r)
    \/ \E r \in Repos : ExportKeyCreate(w, r, "exported.key")
    \/ PersistWrite(w)
    \/ PersistSetPermissions(w)

SpecPersist ==
  Init /\ [][NextPersist]_vars

\* SpecRace: the writer processes racing in save_key on the key file of one
\* repository.  No step waits for another process (there is no lock), so
\* each process that is inside save_key is eventually scheduled.
NextRace ==
  \E w \in Writers :
    \/ SaveKeyCreate(w, "A")
    \/ PersistWrite(w)
    \/ PersistSetPermissions(w)

SpecRace ==
  /\ Init
  /\ [][NextRace]_vars
  /\ \A w \in Writers : /\ WF_vars(PersistWrite(w))
                        /\ WF_vars(PersistSetPermissions(w))

\* SpecInit: the init command run by several processes, on either
\* repository, their calls interleaved; a process may be terminated.
NextInit ==
  \E w \in Writers :
    \/ \E r \in Repos : InitCheck(w, r)
    \/ InitDirsCheck(w)
    \/ InitCreateDirAll(w)
    \/ InitCreateDirKeys(w)
    \/ InitGenerateKey(w)
    \/ InitConfigure(w)
    \/ InitKilled(w)

SpecInit ==
  Init /\ [][NextInit]_vars

\* SpecLoadRace: load_key by one process while others are inside save_key.
NextLoadRace ==
  \/ \E w \in Writers :
       \/ SaveKeyCreate(w, "A")
       \/ PersistWrite(w)
       \/ PersistSetPermissions(w)
  \/ KmLoadKey("A")

SpecLoadRace ==
  Init /\ [][NextLoadRace]_vars

\* SpecCommands: every command of the program run in repository A, one
\* after another, each to its success or failure; repository B is
\* initialized and exports its key.  The filters and add-ssh-user get a few
\* inputs each.  init_dirs alone leaves repository A as an init that failed
\* in generate_key leaves it.
FewInputs ==
  {<<>>, MAGIC_HEADER, <<255>>}

FewKeyTexts ==
  {SSH_ED25519 \o <<" ">> \o BLOB_A \o <<" ", "a">>, NOT_A_KEY}

NextCommands ==
  \/ \E r \in Repos : CmdInit(r)
  \/ KmInitDirs("A")
  \/ CmdExportKey("B", "exported.key")
  \/ CmdLock("A")
  \/ \E p \in {"", "exported.key", "invalid.key"} : CmdUnlock("A", p)
  \/ \E p \in {"exported.key"} : CmdExportKey("A", p)
  \/ \E p \in {"exported.key", "invalid.key"} : CmdImportKey("A", p)
  \/ \E ssh_key \in FewKeyTexts, fk \in FileKeys :
       RunAddSshUser("A", NoText, ssh_key, fk)
  \/ \E encrypted \in EnvelopesOffered, p \in {"id_A", "not_an_identity"} :
       RunImportAgeKey("A", encrypted, p)
  \/ CmdAddGpgUser("A")
  \/ CmdStatus("A")
  \/ \E input \in FewInputs \cup Stored : RunClean("A", input, N1)
  \/ \E input \in FewInputs \cup Stored : RunSmudge("A", input)
  \/ \E input \in FewInputs : RunDiff("A", input)

SpecCommands ==
  Init /\ [][NextCommands]_vars

\* SpecRecipients: repository A grants access to SSH recipients, repository
\* B imports wrapped keys with SSH identities.
NextRecipients ==
  \/ \E r \in Repos : CmdInit(r)
  \/ CmdAddSshUser("A")
  \/ CmdImportAgeKey("B")

SpecRecipients ==
  Init /\ [][NextRecipients]_vars

\* SpecNames: the recipient name add-ssh-user derives, for drawn aliases,
\* key texts and key paths.
InitNames ==
  /\ RepoInit
  /\ CodecIdle
  /\ NamingInit
  /\ PersistIdle

NextNames ==
  DeriveName

SpecNames ==
  InitNames /\ [][NextNames]_vars

\* SpecCodec: encrypt under a drawn key and nonce, then decrypt what was
\* produced, a damaged copy of it, or unrelated bytes, under any key.
\* SpecRepeat: one key encrypting one plaintext again and again
InitRepeat ==
  /\ RepoInit
  /\ RepeatInit
  /\ NamingIdle
  /\ PersistIdle

NextRepeat ==
  EncryptAgain

SpecRepeat ==
  InitRepeat /\ [][NextRepeat]_vars

InitCodec ==
  /\ RepoInit
  /\ CodecInit
  /\ NamingIdle
  /\ PersistIdle

NextCodec ==
  \/ Encrypt
  \/ Decrypt

SpecCodec ==
  InitCodec /\ [][NextCodec]_vars

(***************************************************************************)
(* Properties of the codec, checked under SpecCodec                        *)
(***************************************************************************)
\* b2 is b with exactly one byte changed, at a position after the magic header
OneByteChanged(b, b2) ==
  /\ Len(b2) = Len(b)
  /\ \E i \in (Len(MAGIC_HEADER) + 1)..Len(b) :
       /\ b2[i] # b[i]
       /\ \A j \in 1..Len(b) : j # i => b2[j] = b[j]

\* C1: decrypting under the same key exactly the blob that encrypt produced
\* succeeds and returns the plaintext that was encrypted, for every drawn
\* key, plaintext (the empty one included) and nonce.
C1_RoundTrip ==
  (codec.pc = "decrypted" /\ codec.dkey = codec.key /\ codec.input = codec.blob)
    => (codec.result.ok /\ codec.result.val = codec.plaintext)

C1_Witness ==
  /\ codec.pc = "decrypted"
  /\ codec.dkey = codec.key
  /\ codec.input = codec.blob
  /\ Len(codec.plaintext) = MaxLen
  /\ codec.result = Ok(codec.plaintext)

\* C4: decrypt fails with the AEAD's authentication error and returns no
\* plaintext when the blob is decrypted under another key, and when one byte
\* of it after the magic header (nonce, ciphertext or tag) has been changed.
C4_AuthenticationFails ==
  (/\ codec.pc = "decrypted"
   /\ \/ (codec.dkey # codec.key /\ codec.input = codec.blob)
      \/ (codec.dkey = codec.key /\ OneByteChanged(codec.blob, codec.input)))
    => codec.result = Err("Crypto", "aead::Error")

\* a byte of the ciphertext proper (between nonce and tag) was changed
C4_Witness ==
  /\ codec.pc = "decrypted"
  /\ codec.dkey = codec.key
  /\ OneByteChanged(codec.blob, codec.input)
  /\ codec.plaintext # <<>>
  /\ codec.input[Len(MAGIC_HEADER) + NONCE_SIZE + 1]
       # codec.blob[Len(MAGIC_HEADER) + NONCE_SIZE + 1]
  /\ ~codec.result.ok
  /\ codec.result.val = <<>>

\* the errors decrypt returns from its own checks of the input's form
FormatErrors ==
  {Err("Crypto", "Ciphertext too short"),
   Err("Crypto", "Invalid encrypted data format")}

\* the input cannot be a blob: it is shorter than header, nonce and tag
\* together, or does not begin with the magic header
Malformed(input) ==
  \/ Len(input) < Len(MAGIC_HEADER) + NONCE_SIZE + TAG_SIZE
  \/ Take(input, Len(MAGIC_HEADER)) # MAGIC_HEADER

\* C21: decrypt rejects every input shorter than 36 bytes, and every input
\* not beginning with the magic header, with one of its format errors; none
\* is handed to the AEAD and reported with the AEAD's error, none is decoded.
C21_FormatErrorFirst ==
  (codec.pc = "decrypted" /\ Malformed(codec.input))
    => codec.result \in FormatErrors

FilterOps ==
  {"clean", "smudge", "diff"}

\* this step runs smudge, in the repository of the clean that ran just
\* before and succeeded, on exactly what that clean wrote
SmudgeOfClean ==
  /\ last.op = "clean"
  /\ last.res.ok
  /\ last'.op = "smudge"
  /\ last'.repo = last.repo
  /\ last'.stdin = last.stdout

\* C2 as stated: smudge of clean's output succeeds and writes clean's
\* input, however that input begins.
C2_AnyInput ==
  [][SmudgeOfClean => (last'.res.ok /\ last'.stdout = last.stdin)]_vars

\* C2, amended: smudge of clean's output succeeds and writes clean's input,
\* for every input that does not begin with the 8-byte magic header.
C2_RoundTrip ==
  [][(SmudgeOfClean /\ ~is_encrypted(last.stdin))
       => (last'.res.ok /\ last'.stdout = last.stdin)]_vars

\* smudge has decrypted a blob to a plaintext of the longest drawn length
C2_Witness ==
  /\ last.op = "smudge"
  /\ last.res.ok
  /\ is_encrypted(last.stdin)
  /\ last.stdout \in Plaintexts
  /\ Len(last.stdout) = MaxLen

\* C3: a clean that runs on what the previous successful clean of the same
\* repository wrote succeeds and writes those bytes unchanged; and every
\* clean that reads an input beginning with the magic header writes that
\* input unchanged.
C3_CleanIdempotent ==
  [][(last'.op = "clean")
       => /\ (last'.read /\ is_encrypted(last'.stdin))
               => (last'.res.ok /\ last'.stdout = last'.stdin)
          /\ (last.op = "clean" /\ last.res.ok /\ last'.repo = last.repo
                /\ last'.stdin = last.stdout)
               => (last'.res.ok /\ last'.stdout = last.stdout)]_vars

\* clean has passed a complete blob (header, nonce, ciphertext, tag) through
C3_Witness ==
  /\ last.op = "clean"
  /\ last.res.ok
  /\ is_encrypted(last.stdin)
  /\ Len(last.stdin) = Len(MAGIC_HEADER) + NONCE_SIZE + MaxLen + TAG_SIZE
  /\ last.stdout = last.stdin

\* C5 as stated: each of clean, smudge and diff fails with NotInitialized in
\* a repository without the git-crypt directory and with KeyNotFound in one
\* without the key file, having read no input and written no output.
C5_AllFiltersRequireKey ==
  (last.op \in FilterOps /\ ~load_key(fs[last.repo]).ok)
    => /\ ~last.read
       /\ last.stdout = <<>>
       /\ ~fs[last.repo].git_crypt_dir => last.res.err = "NotInitialized"
       /\ (fs[last.repo].git_crypt_dir /\ ~fs[last.repo].default.exists)
            => last.res.err = "KeyNotFound"

\* C6: a filter that ends in failure has written nothing to standard output.
C6_NoPartialOutput ==
  (last.op \in FilterOps /\ ~last.res.ok) => last.stdout = <<>>

\* smudge has read a complete blob and the AEAD rejected it
C6_Witness ==
  /\ last.op = "smudge"
  /\ last.read
  /\ Len(last.stdin) >= Len(MAGIC_HEADER) + NONCE_SIZE + TAG_SIZE
  /\ last.res = Err("Crypto", "aead::Error")
  /\ last.stdout = <<>>

\* x begins with the 8 bytes of the magic header
BeginsWithMagic(x) ==
  /\ Len(x) >= Len(MAGIC_HEADER)
  /\ \A i \in 1..Len(MAGIC_HEADER) : x[i] = MAGIC_HEADER[i]

\* C22: the diff filter writes exactly the marker line, and nothing of the
\* input, when the input begins with the magic header, and writes the input
\* unchanged otherwise, inputs shorter than the header included.
C22_DiffMarkerOrPassthrough ==
  last.op = "diff"
    => /\ last.res.ok
       /\ last.stdout = IF BeginsWithMagic(last.stdin)
                        THEN DIFF_MARKER
                        ELSE last.stdin

\* diff ran on a blob the clean filter produced
C22_Witness ==
  /\ last.op = "diff"
  /\ BeginsWithMagic(last.stdin)
  /\ Len(last.stdin) >= Len(MAGIC_HEADER) + NONCE_SIZE + TAG_SIZE
  /\ last.stdout = DIFF_MARKER

(***************************************************************************)
(* Properties of the key store and its commands, checked under Spec        *)
(***************************************************************************)
ALREADY_INITIALIZED_LINE ==
  "Repository already initialized for git-crypt"

\* this step runs op in a repository whose git-crypt directory exists
RunsInitialized(op) ==
  /\ last'.op = op
  /\ is_initialized(fs[last'.repo])

KeyFileUnchanged ==
  fs'[last'.repo].default = fs[last'.repo].default

\* C7 as stated: the init command and KeyManager::init_dirs, run where the
\* key directory already exists, both end in AlreadyInitialized and leave
\* the master key file unchanged.
C7_InitFailsTwice ==
  [][(RunsInitialized("init") \/ RunsInitialized("init_dirs"))
       => (last'.res.err = "AlreadyInitialized" /\ KeyFileUnchanged)]_vars

\* C7, amended: where the key directory already exists, KeyManager::init_dirs
\* fails with AlreadyInitialized and the init command exits successfully; in
\* both cases the master key file is unchanged.
C7_InitExactlyOnce ==
  [][/\ RunsInitialized("init_dirs")
          => (last'.res.err = "AlreadyInitialized" /\ KeyFileUnchanged)
     /\ RunsInitialized("init")
          => (last'.res.ok /\ KeyFileUnchanged)]_vars

\* init_dirs was refused in a repository that holds a key
C7_Witness ==
  /\ last.op = "init_dirs"
  /\ last.res.err = "AlreadyInitialized"
  /\ load_key(fs[last.repo]).ok

\* C8: the init command run in an initialized repository succeeds, reports
\* that the repository is already initialized, and leaves the key store, the
\* git configuration and every other file as they were.
C8_InitAgainIsNoOp ==
  [][RunsInitialized("init")
       => /\ last'.res.ok
          /\ last'.printed[Len(last'.printed)] = ALREADY_INITIALIZED_LINE
          /\ UNCHANGED <<fs, config, files>>]_vars

\* init reported an initialized repository whose filters had been removed,
\* and did not configure them again
C8_Witness ==
  /\ last.op = "init"
  /\ last.res.ok
  /\ last.printed[Len(last.printed)] = ALREADY_INITIALIZED_LINE
  /\ load_key(fs[last.repo]).ok
  /\ config[last.repo] = {}

\* the key the most recent generate_key, save_key or import_key was to store
Written ==
  CASE last.op = "generate_key" -> last.res.val
    [] last.op = "save_key"     -> last.arg
    [] OTHER                    -> files[last.path].data

\* C10: after a successful generate_key, save_key or import_key, load_key
\* returns exactly the key that operation wrote, whatever was stored before.
C10_LastWriteWins ==
  (last.op \in {"generate_key", "save_key", "import_key", "import-key"}
     /\ last.res.ok)
    => load_key(fs[last.repo]) = Ok(Written)

\* import_key succeeded and the two repositories now hold different keys, so
\* the key it stored is not simply the only key ever written
C10_Witness ==
  /\ last.op = "import_key"
  /\ last.res.ok
  /\ load_key(fs[last.repo]) = Ok(files[last.path].data)
  /\ \E r \in Repos : /\ load_key(fs[r]).ok
                      /\ load_key(fs[r]) # load_key(fs[last.repo])

\* this step runs lock, or unlock without a key file, in an initialized
\* repository whose key can be loaded
RunsWithKey(op) ==
  /\ RunsInitialized(op)
  /\ last'.path = ""
  /\ load_key(fs[last'.repo]).ok

\* the step repeats the command that ran just before it in this repository
Repeats ==
  /\ last.op = last'.op
  /\ last.repo = last'.repo
  /\ last.path = last'.path
  /\ last.res.ok

\* C25: in an initialized repository that has a key, every lock succeeds
\* and leaves the four filter settings removed, every unlock without a key
\* file succeeds and leaves them set, a repeated lock or unlock changes
\* nothing, and none of them changes the master key file.
C25_LockUnlockIdempotent ==
  [][/\ RunsWithKey("lock")
          => /\ last'.res.ok
             /\ config'[last'.repo] \cap FilterSettings = {}
             /\ KeyFileUnchanged
     /\ RunsWithKey("unlock")
          => /\ last'.res.ok
             /\ FilterSettings \subseteq config'[last'.repo]
             /\ KeyFileUnchanged
     /\ ((RunsWithKey("lock") \/ RunsWithKey("unlock")) /\ Repeats)
          => /\ config' = config
             /\ fs' = fs]_vars

\* a lock succeeded in a repository that holds a key and whose filters were
\* not set
C25_Witness ==
  /\ last.op = "lock"
  /\ last.res.ok
  /\ config[last.repo] \cap FilterSettings = {}
  /\ load_key(fs[last.repo]).ok
  /\ fs[last.repo].default.data \in KeySet

\* this step runs import_key or the import-key command (the latter in an
\* initialized repository) on a path that holds no file, or a file that is
\* not exactly KEY_SIZE bytes long
ImportsBadFile ==
  /\ \/ last'.op = "import_key"
     \/ RunsInitialized("import-key")
  /\ \/ ~files[last'.path].exists
     \/ Len(files[last'.path].data) # KEY_SIZE

\* C11: import_key of a file that does not exist or whose length is not 32
\* bytes fails, with InvalidKeyFormat for the wrong length, and leaves the
\* repository's key file as it was.
C11_ImportRejectsBadFile ==
  [][ImportsBadFile
       => /\ ~last'.res.ok
          /\ files[last'.path].exists => last'.res.err = "InvalidKeyFormat"
          /\ KeyFileUnchanged]_vars

\* import_key refused a file that is one byte too long, in a repository
\* that holds a key
C11_Witness ==
  /\ last.op = "import_key"
  /\ last.res.err = "InvalidKeyFormat"
  /\ files[last.path].exists
  /\ Len(files[last.path].data) = KEY_SIZE + 1
  /\ load_key(fs[last.repo]).ok

\* the command or call that ran last wrote a key file
WroteKeyFile ==
  /\ last.res.ok
  /\ \/ last.op \in {"generate_key", "save_key", "import_key", "import-key",
                      "export_key", "export-key"}
     \/ /\ last.op = "init"
        /\ last.printed[Len(last.printed)] # ALREADY_INITIALIZED_LINE

\* the file that command or call wrote
KeyFileWritten ==
  IF last.op \in {"export_key", "export-key"}
  THEN files[last.path]
  ELSE fs[last.repo].default

\* C14: after a successful init, generate_key, save_key, import_key or
\* export_key, the file it wrote holds exactly 32 bytes and has mode 0600.
C14_KeyFileOwnerOnly ==
  WroteKeyFile => /\ KeyFileWritten.exists
                  /\ Len(KeyFileWritten.data) = KEY_SIZE
                  /\ KeyFileWritten.mode = MODE_OWNER_RW

\* export_key wrote the key over a file that existed with mode 0644
C14_Witness ==
  /\ last.op = "export_key"
  /\ last.res.ok
  /\ last.path = "invalid.key"
  /\ files["invalid.key"].data \in KeySet
  /\ files["invalid.key"].mode = MODE_OWNER_RW

(***************************************************************************)
(* Properties of load_key, checked under SpecKeyFile                       *)
(***************************************************************************)
\* C12: load_key fails with KeyNotFound when the key file is absent and with
\* InvalidKeyFormat when it is present with a length other than 32; it
\* returns a key only for a 32-byte file, and then the file's bytes.
C12_LoadKeyOutcomes ==
  (last.op = "load_key")
    => /\ ~fs[last.repo].default.exists => last.res.err = "KeyNotFound"
       /\ (fs[last.repo].default.exists
             /\ Len(fs[last.repo].default.data) # KEY_SIZE)
            => last.res.err = "InvalidKeyFormat"
       /\ last.res.ok => /\ fs[last.repo].default.exists
                         /\ Len(fs[last.repo].default.data) = KEY_SIZE
                         /\ last.res.val = fs[last.repo].default.data

\* load_key refused a key file of 33 bytes
C12_Witness ==
  /\ last.op = "load_key"
  /\ last.res.err = "InvalidKeyFormat"
  /\ fs[last.repo].default.exists
  /\ Len(fs[last.repo].default.data) = KEY_SIZE + 1

(***************************************************************************)
(* Properties of persisting a key, checked under SpecPersist               *)
(***************************************************************************)
\* f holds bytes that a process other than its owner may access
Exposed(f) ==
  /\ f.exists
  /\ f.data # <<>>
  /\ f.mode # MODE_OWNER_RW

\* C13 as stated: while a key is being persisted, no state has the key file
\* (or the export target) holding key bytes with a mode that allows access
\* beyond owner read/write.
C13_NeverExposed ==
  /\ \A r \in Repos : ~Exposed(fs[r].default)
  /\ \A w \in Writers :
       (persist[w].op = "export_key" /\ persist[w].pc = "written")
         => ~Exposed(files[persist[w].path])

(***************************************************************************)
(* Properties of command sequences, checked under SpecCommands             *)
(***************************************************************************)
\* the clean or the smudge filter is configured in repository r
FiltersConfigured(r) ==
  config[r] \cap {"filter.git-crypt.clean", "filter.git-crypt.smudge"} # {}

\* C26: whenever the clean/smudge filters are configured the master key
\* file exists and holds 32 bytes, and an unlock that fails (no key, or an
\* invalid key file supplied) configures nothing.
C26_FiltersImplyKey ==
  /\ [](\A r \in Repos :
          FiltersConfigured(r)
            => /\ fs[r].default.exists
               /\ Len(fs[r].default.data) = KEY_SIZE)
  /\ [][(last'.op = "unlock" /\ ~last'.res.ok) => config' = config]_vars

\* unlock with an invalid key file failed in a repository that has its
\* directories but no key, and the filters are not configured
C26_Witness ==
  /\ last.op = "unlock"
  /\ last.path = "invalid.key"
  /\ last.res.err = "InvalidKeyFormat"
  /\ is_initialized(fs[last.repo])
  /\ ~fs[last.repo].default.exists
  /\ ~FiltersConfigured(last.repo)

\* the commands that may replace the master key: a first init, import-key,
\* unlock with a key file, import-age-key
MayWriteKey ==
  \/ last'.op = "init" /\ ~is_initialized(fs[last'.repo])
  \/ last'.op \in {"import-key", "import-age-key"}
  \/ last'.op = "unlock" /\ last'.path # ""

\* the commands that only read the master key, or do not use it
NeverWritesKey ==
  \/ last'.op \in {"lock", "export-key", "add-ssh-user", "add-gpg-user",
                    "clean", "smudge", "diff", "status"}
  \/ last'.op = "unlock" /\ last'.path = ""

\* C30: a step changes the content of a master key file only if it is a
\* first init, import-key, unlock with a key file or import-age-key, and
\* then only in the repository it runs in; lock, unlock without a key file,
\* export-key, add-ssh-user, add-gpg-user, clean, smudge, diff and status
\* leave every key file as it was, whether they succeed or fail.
C30_KeyFileFrame ==
  [][/\ \A r \in Repos :
          fs'[r].default # fs[r].default => (MayWriteKey /\ r = last'.repo)
     /\ NeverWritesKey => \A r \in Repos : fs'[r].default = fs[r].default]_vars

\* export-key wrote the key of a repository that has granted access to an
\* SSH recipient, and the key file still holds that key
C30_Witness ==
  /\ last.op = "export-key"
  /\ last.res.ok
  /\ files[last.path].data = fs[last.repo].default.data
  /\ fs[last.repo].default.data \in KeySet
  /\ DOMAIN fs[last.repo].age # {}

(***************************************************************************)
(* Properties of concurrent init commands, checked under SpecInit          *)
(***************************************************************************)
\* process w, inside init on repository r, got past init_dirs
PastDirs(w, r) ==
  /\ persist[w].op = "init"
  /\ persist[w].repo = r
  /\ persist[w].pc \in {"keys_made", "saved"}

\* C27: of the init commands running on one repository at most one gets
\* past init_dirs; it saves its key where no key file exists, and a key
\* file, once written, is never written again.
C27_OneInitGeneratesKey ==
  /\ [](\A r \in Repos : Cardinality({w \in Writers : PastDirs(w, r)}) <= 1)
  /\ [][\A w \in Writers :
          (InitRunning(w, "keys_made") /\ persist'[w].pc = "saved")
            => /\ ~fs[persist[w].repo].default.exists
               /\ fs'[persist[w].repo].default.data = persist'[w].key]_vars
  /\ [][\A r \in Repos :
          fs[r].default.exists => fs'[r].default = fs[r].default]_vars

\* every init has returned; the last to return had passed both existence
\* checks and lost the race at create_dir, and the repository holds the
\* winner's key
C27_Witness ==
  /\ \A w \in Writers : persist[w].pc = "idle"
  /\ last.op = "init"
  /\ last.res = Err("Io", "File exists")
  /\ fs[last.repo].default.exists
  /\ fs[last.repo].default.data \in KeySet
  /\ FilterSettings \subseteq config[last.repo]

\* C29 as stated: in every state a repository that reports itself
\* initialized holds a default key file of 32 bytes.
C29_InitAllOrNothing ==
  \A r \in Repos :
    is_initialized(fs[r])
      => /\ fs[r].default.exists
         /\ Len(fs[r].default.data) = KEY_SIZE

(***************************************************************************)
(* Properties of racing writers, checked under SpecRace                    *)
(***************************************************************************)
\* writer w returns from save_key in this step and no writer is left inside
LastWriterReturns(w) ==
  /\ persist[w].pc = "written"
  /\ \A v \in Writers : persist'[v].pc = "idle"

\* the keys of the save_key calls that raced: the one w is returning from
\* and the one that returned before it
RacedKeys(w) ==
  {persist[w].key} \cup (IF last.op = "save_key" THEN {last.arg} ELSE {})

\* C24: racing save_key calls on one key path all return, and when the last
\* of them has returned the key file holds exactly one of the keys they
\* wrote.
C24_RaceLastWriteWins ==
  /\ [][\A w \in Writers :
          LastWriterReturns(w)
            => fs'[persist[w].repo].default.data \in RacedKeys(w)]_vars
  /\ \A w \in Writers : (persist[w].pc # "idle") ~> (persist[w].pc = "idle")

\* a writer that wrote its key and is still inside save_key finds the file
\* holding the other key, written and completed by the other process since
C24_Witness ==
  \E w \in Writers :
    /\ persist[w].pc = "written"
    /\ \A v \in Writers \ {w} : persist[v].pc = "idle"
    /\ last.op = "save_key"
    /\ last.arg # persist[w].key
    /\ fs[persist[w].repo].default.data = last.arg

(***************************************************************************)
(* Properties of load_key beside a writer, checked under SpecLoadRace      *)
(***************************************************************************)
\* this step is a load_key made while some process is inside save_key on
\* the same repository
LoadsDuringSave ==
  /\ last'.op = "load_key"
  /\ persist' = persist
  /\ fs' = fs
  /\ \E w \in Writers : /\ persist[w].pc # "idle"
                        /\ persist[w].repo = last'.repo

\* the keys being written by the processes now inside save_key
KeysBeingSaved ==
  {persist[w].key : w \in {v \in Writers : persist[v].pc # "idle"}}

\* C28 as stated: a load_key made while another process is inside save_key
\* succeeds and returns the stored key or a key being written; it never
\* fails with KeyNotFound or InvalidKeyFormat.
C28_LoadSeesOldOrNew ==
  [][LoadsDuringSave
       => /\ last'.res.ok
          /\ last'.res.val \in KeySet
          /\ last'.res.val \in KeysBeingSaved
                \/ last'.res.val = fs[last'.repo].default.data]_vars

(***************************************************************************)
(* Properties of recipient names, checked under SpecNames                  *)
(***************************************************************************)
AllowedInName(c) ==
  \/ c \in Digits \cup Letters
  \/ c \in {"-", "_", "."}

\* s with every character outside the allowed ones removed, order kept
RECURSIVE OnlyAllowed(_)
OnlyAllowed(s) ==
  IF s = <<>>
  THEN <<>>
  ELSE IF AllowedInName(s[Len(s)])
  THEN Append(OnlyAllowed(SubSeq(s, 1, Len(s) - 1)), s[Len(s)])
  ELSE OnlyAllowed(SubSeq(s, 1, Len(s) - 1))

\* positions of text where a whitespace-delimited token starts
TokenStarts(text) ==
  {i \in 1..Len(text) :
     /\ ~is_whitespace(text[i])
     /\ i = 1 \/ is_whitespace(text[i - 1])}

\* the token of text that starts at b
TokenAt(text, b) ==
  LET e == CHOOSE k \in b..Len(text) :
             /\ \A j \in b..k : ~is_whitespace(text[j])
             /\ k = Len(text) \/ is_whitespace(text[k + 1])
  IN  SubSeq(text, b, e)

\* the token of text that starts at the third smallest of starts, <<>> when
\* there are fewer than three
ThirdOf(text, starts) ==
  IF Cardinality(starts) < 3
  THEN <<>>
  ELSE TokenAt(text, CHOOSE i \in starts : Cardinality({j \in starts : j < i}) = 2)

\* the third whitespace-delimited token of text, <<>> when there is none
ThirdToken(text) ==
  ThirdOf(text, TokenStarts(text))

\* the first non-empty of the candidates; the last one is never empty
RECURSIVE FirstNonEmpty(_)
FirstNonEmpty(candidates) ==
  IF Len(candidates) = 1 \/ Head(candidates) # <<>>
  THEN Head(candidates)
  ELSE FirstNonEmpty(Tail(candidates))

\* the candidates for the name, in the order of the claim
NameCandidates ==
  <<OnlyAllowed(naming.alias.text),
    OnlyAllowed(ThirdToken(naming.ssh_key)),
    OnlyAllowed(file_stem(naming.ssh_key_path).text),
    SSH_PREFIX \o hex_encode(SubSeq(Sha256(naming.ssh_key), 1, 8))>>

\* C19: the name is the first non-empty of: the alias sanitized, the third
\* token of the key text sanitized, the file stem of the key path sanitized,
\* and "ssh-" with the hex of the first 8 digest bytes of the key text;
\* sanitizing keeps exactly the ASCII alphanumerics and '-', '_', '.'.
C19_NameOrder ==
  (naming.pc = "named") => naming.name = FirstNonEmpty(NameCandidates)

\* an alias was given but sanitized to nothing, and the name is the key's
\* comment with a character removed
C19_Witness ==
  /\ naming.pc = "named"
  /\ naming.alias.some
  /\ naming.alias.text # <<>>
  /\ ThirdToken(naming.ssh_key) # <<>>
  /\ naming.name = OnlyAllowed(ThirdToken(naming.ssh_key))
  /\ naming.name # ThirdToken(naming.ssh_key)

\* the path of the wrapped file below keys/age
WrappedFileName ==
  naming.name \o <<".", "a", "g", "e">>

\* C20: the name is never empty and holds only ASCII alphanumerics, '-',
\* '_' and '.', so that <name>.age is a single path component.
C20_NameIsSafe ==
  (naming.pc = "named")
    => /\ naming.name # <<>>
       /\ \A i \in 1..Len(naming.name) : AllowedInName(naming.name[i])
       /\ components(WrappedFileName) = <<WrappedFileName>>
       /\ file_name(WrappedFileName).some

\* neither the alias, nor the key text, nor the key path gave a usable
\* label, and the name is the fingerprint
C20_Witness ==
  /\ naming.pc = "named"
  /\ naming.alias.some
  /\ naming.alias.text # <<>>
  /\ naming.ssh_key_path # <<".", ".">>
  /\ Len(naming.name) = Len(SSH_PREFIX) + 16
  /\ SubSeq(naming.name, 1, Len(SSH_PREFIX)) = SSH_PREFIX

(***************************************************************************)
(* Properties of key sharing, checked under SpecShare                      *)
(***************************************************************************)
\* this step imports, into an initialized repository, the file that the
\* export-key just before it wrote
ImportOfExport ==
  /\ last.op = "export-key"
  /\ last.res.ok
  /\ last'.op = "import-key"
  /\ last'.path = last.path
  /\ is_initialized(fs[last'.repo])

\* the importing repository now loads the exporting repository's 32 bytes
SameKeyLoaded ==
  /\ last'.res.ok
  /\ load_key(fs[last.repo]).ok
  /\ Len(load_key(fs[last.repo]).val) = KEY_SIZE
  /\ load_key(fs'[last'.repo]) = load_key(fs[last.repo])

\* this step runs smudge on what the successful clean just before it wrote,
\* in a repository that loads the same key as the repository of that clean
SmudgeAcross ==
  /\ last.op = "clean"
  /\ last.res.ok
  /\ last'.op = "smudge"
  /\ last'.stdin = last.stdout
  /\ load_key(fs[last'.repo]).ok
  /\ load_key(fs[last'.repo]) = load_key(fs[last.repo])

\* C9 as stated: importing the exported file gives the importer the
\* exporter's 32 key bytes, and then smudge on one side undoes clean on the
\* other for every plaintext.
C9_AnyPlaintext ==
  [][/\ ImportOfExport => SameKeyLoaded
     /\ SmudgeAcross => (last'.res.ok /\ last'.stdout = last.stdin)]_vars

\* C9, amended: as stated, for every plaintext that does not begin with the
\* 8-byte magic header.
C9_KeySharing ==
  [][/\ ImportOfExport => SameKeyLoaded
     /\ (SmudgeAcross /\ ~is_encrypted(last.stdin))
          => (last'.res.ok /\ last'.stdout = last.stdin)]_vars

\* repository B, holding the key of the exported file as A does, has
\* decrypted a blob
C9_Witness ==
  /\ last.op = "smudge"
  /\ last.repo = "B"
  /\ last.res.ok
  /\ is_encrypted(last.stdin)
  /\ last.stdout \in Plaintexts
  /\ files["exported.key"].exists
  /\ load_key(fs["A"]) = Ok(files["exported.key"].data)
  /\ load_key(fs["B"]) = Ok(files["exported.key"].data)

(***************************************************************************)
(* Under SpecRecipients: wrapped keys (section 4.5)                        *)
(***************************************************************************)
\* the key pair whose public key the last add-ssh-user was given
RecipientPair ==
  parse_recipient(trim(naming.ssh_key))

\* the last command was an add-ssh-user that succeeded
AddedRecipient ==
  /\ last.op = "add-ssh-user"
  /\ last.res.ok

\* the file that add-ssh-user wrote
WrappedFile ==
  fs[last.repo].age[naming.name \o AGE_EXTENSION]

\* C15: what add-ssh-user wrapped for a valid public key, unwrapped with
\* that pair's private key, is the repository's 32-byte master key.
C15_WrapRoundTrip ==
  AddedRecipient
    => /\ RecipientPair.ok
       /\ load_key(fs[last.repo]).ok
       /\ Len(load_key(fs[last.repo]).val) = KEY_SIZE
       /\ decrypt_key_with_ssh_identity(WrappedFile,
                                        IdentityText(RecipientPair.val))
            = Ok(load_key(fs[last.repo]).val)

\* the second key pair was granted access and its identity unwraps the key
C15_Witness ==
  /\ AddedRecipient
  /\ RecipientPair = Ok("B")
  /\ decrypt_key_with_ssh_identity(WrappedFile, IdentityText("B")).ok
  /\ decrypt_key_with_ssh_identity(WrappedFile, IdentityText("B")).val \in KeySet

\* the payloads an age file on offer may carry
Payloads ==
  KeySet \cup {TooShort}

\* every intact age file: each payload wrapped for each key pair
Wrapped ==
  {[pair |-> pair, payload |-> payload,
    bytes |-> AgeHeader(pair, fk) \o AgePayload(pair, fk, payload)] :
     pair \in KeyPairs, fk \in FileKeys, payload \in Payloads}

\* encrypted is payload wrapped for the key pair that identity belongs to
WrapsFor(encrypted, identity, payload) ==
  \E w \in Wrapped :
    /\ identity = IdentityText(w.pair)
    /\ w.payload = payload
    /\ w.bytes = encrypted

AddsSshUser ==
  /\ RunsInitialized("add-ssh-user")
  /\ load_key(fs[last'.repo]).ok

\* C17: add-ssh-user with key text that is no SSH public key fails with the
\* invalid-recipient error, writes nothing under keys/age and leaves the
\* master key unchanged.
C17_InvalidRecipient ==
  [][AddsSshUser /\ ~parse_recipient(trim(naming'.ssh_key)).ok
       => /\ last'.res = Err("Age", "Invalid SSH recipient")
          /\ fs'[last'.repo].age = fs[last'.repo].age
          /\ KeyFileUnchanged]_vars

\* text that is no key was refused, with an alias given, in a repository
\* that already holds a wrapped key
C17_Witness ==
  /\ last.op = "add-ssh-user"
  /\ last.res = Err("Age", "Invalid SSH recipient")
  /\ naming.ssh_key = NOT_A_KEY
  /\ naming.alias = SomeText(<<"a">>)
  /\ DOMAIN fs[last.repo].age # {}
  /\ load_key(fs[last.repo]).ok

\* the recipient a wrapped file was written for
RecipientOf(encrypted) ==
  encrypted[Len(AGE_MAGIC) + 1]

\* C18: add-ssh-user leaves every wrapped file of a different recipient in
\* place and byte-for-byte as it was, and leaves the master key unchanged.
C18_OtherRecipientsUntouched ==
  [][AddsSshUser
       => /\ KeyFileUnchanged
          /\ \A n \in DOMAIN fs[last'.repo].age :
               (\/ ~parse_recipient(trim(naming'.ssh_key)).ok
                \/ RecipientOf(fs[last'.repo].age[n])
                     # RecipientTag(parse_recipient(trim(naming'.ssh_key)).val))
                 => /\ n \in DOMAIN fs'[last'.repo].age
                    /\ fs'[last'.repo].age[n] = fs[last'.repo].age[n]]_vars

====
